---- MODULE Spec2Model ----
(***************************************************************************)
(* Model of the breakout trading bot: the signal decision handlers, the    *)
(* order executor and the position manager (SL / TP1 / TP2 / trailing and  *)
(* reconciliation with the exchange balance).                              *)
(*                                                                         *)
(* Two asyncio tasks touch the database: the position loop                 *)
(* (main_new.py position_loop) and the Telegram update task, which runs    *)
(* one handler at a time.  Every `await` on the exchange or on Telegram is *)
(* a point where the other task may run, so each action below is the code  *)
(* between two such awaits.                                                *)
(*                                                                         *)
(* Units: prices in 1/100000 USDT, amounts in 1/100 of a token, USDT in    *)
(* cents.  Products with the float constants of the code are integer       *)
(* products followed by a floor division.                                  *)
(***************************************************************************)
EXTENDS Integers, Sequences, FiniteSets, TLC

VARIABLES signals, positions, trades, stats, buy_orders, pending_custom, loop, hd,
          scan, adaptive, engine, STRATEGY_CONFIG

vars == <<signals, positions, trades, stats, buy_orders, pending_custom, loop, hd,
          scan, adaptive, engine, STRATEGY_CONFIG>>

(***************************************************************************)
(* Bounds and input sets                                                   *)
(***************************************************************************)
NumSignals == 1

\* hours the clock of the scan loop runs
MaxTime == 5

NoValue == -1

PriceScale == 100000
AmountScale == 100
UsdtScale == 100

\* prices a ticker call may report
Prices == {9700, 9800, 10100, 10500, 10700, 11100, 11500}

\* total balance of the base asset a balance call may report
ExchangeAmounts == {0, 2000, 50000}

\* free USDT (cents) a balance call may report
UsdtFree == {500, 10000}

\* amounts (cents) behind the buy_amt_<id>_<n> buttons
BuyAmounts == {2500}

\* the pairs the scanner goes through (self.symbols)
Symbols == <<"AAA/USDT", "BBB/USDT">>

SymbolSet == {Symbols[i] : i \in DOMAIN Symbols}

\* change of BTC/USDT over the last hour as get_btc_change_1h reports it, in
\* 1/100 of a percent; 0 is also what a failed request gives
BtcChanges == {-400, -300, 0}

\* low of the daily candle of a pair; NoValue: the request gave no candle
DailyLows == {NoValue, 8000, 9000}

\* inputs of the sizing of execute_buy_from_signal: free USDT (cents), the
\* amount_usdt_override (0: none) and stop-losses from 0.7% to 50% below
\* the entry price
SizingFree == {0, 999, 1000, 2500, 10000, 20000}
SizingOverrides == {0, 1000, 2500, 5000, 20000}
SizingStops == {9950, 9920, 9919, 9800, 9000, 5010}

\* levels of a signal: detection price, entry, stop-loss, TP1, TP2
LevelSets ==
    { [price |-> 10000, entry_price |-> 10020, stop_loss |-> 9800,
       tp1 |-> 10500, tp2 |-> 11000],
      [price |-> 10000, entry_price |-> 10020, stop_loss |-> 9950,
       tp1 |-> 10500, tp2 |-> 11000] }

Min(a, b) == IF a <= b THEN a ELSE b
Max(a, b) == IF a >= b THEN a ELSE b

(***************************************************************************)
(* Database enums                                                          *)
(***************************************************************************)
SignalStatus == {"pending", "accepted", "rejected", "expired", "executed"}

OpenStatuses == {"open", "partial_tp1", "partial_tp2"}
ClosedStatuses == {"closed_tp", "closed_sl", "closed_manual"}
PositionStatus == OpenStatuses \cup ClosedStatuses

SignalIds == 1..NumSignals

\* ids a callback may carry: the signals of the database and one id that
\* has no row
CallbackIds == 1..(NumSignals + 1)

PosIds == DOMAIN positions

(***************************************************************************)
(* Risk management constants                                               *)
(***************************************************************************)
tp1_close_pct == 30
tp2_close_pct == 30
tp1_remaining_pct == 70
trailing_pct == 97
dust_pct == 5
position_size_pct == 10
max_risk_per_trade == 1
min_usdt == 1000
signal_cooldown_hours == 2
drift_pct == 1
max_positions == 3
max_daily_losses == 2
\* in 1/100 of a percent
btc_drop_threshold == -300
night_start == 2
night_end == 5
max_from_daily_low_pct == 20

(***************************************************************************)
(* Adaptive strategy per coin                                              *)
(***************************************************************************)
MAX_RISK_LEVEL == 3
MIN_RISK_LEVEL == -3
MIN_TRADES_BEFORE_AUTO == 5

\* how many of the last P&Ls adaptive_on_trade averages
last_n == 5

\* P&L of a closing trade, in 1/100 of a percent: a loss below -0.3% and a
\* gain above 0.5%
PnlValues == {-100, 60}

Presets == {"soft", "normal", "hard"}

RECURSIVE SumSeq(_)
SumSeq(q) == IF q = << >> THEN 0 ELSE Head(q) + SumSeq(Tail(q))

\* last_pnls.append(pnl_pct): the deque keeps 20 values, of which only the
\* last five are ever read, so five are kept here
AppendPnl(q, pnl_pct) ==
    LET r == Append(q, pnl_pct)
    IN  IF Len(r) > last_n THEN Tail(r) ELSE r

\* _apply_manual_preset for one symbol
ManualPreset(preset) ==
    [risk_level |-> CASE preset = "soft" -> -1
                      [] preset = "hard" -> 1
                      [] OTHER -> 0,
     manual_mode |-> preset, trades_in_manual_mode |-> 0, last_pnls |-> << >>]

\* a manual mode that ends one trade late
ManualTrade_m(st, pnls) ==
    [st EXCEPT !.last_pnls = pnls,
               !.trades_in_manual_mode = @ + 1,
               !.manual_mode =
                   IF st.trades_in_manual_mode + 1 > MIN_TRADES_BEFORE_AUTO
                   THEN "auto" ELSE @]

\* adaptive_on_trade under a manual preset: the trade is counted, and the
\* preset ends with the MIN_TRADES_BEFORE_AUTO-th trade
ManualTrade(st, pnls) ==
    [st EXCEPT !.last_pnls = pnls,
               !.trades_in_manual_mode = @ + 1,
               !.manual_mode =
                   IF st.trades_in_manual_mode + 1 >= MIN_TRADES_BEFORE_AUTO
                   THEN "auto" ELSE @]

\* an adaptation whose average rule does not stop at the limits
adaptive_on_trade_m(st, pnl_pct) ==
    LET pnls == AppendPnl(st.last_pnls, pnl_pct)
        rl1 == IF pnl_pct <= -30 THEN Min(st.risk_level + 1, MAX_RISK_LEVEL)
               ELSE IF pnl_pct >= 50 THEN Max(st.risk_level - 1, MIN_RISK_LEVEL)
               ELSE st.risk_level
        rl2 == IF Len(pnls) < last_n THEN rl1
               ELSE IF SumSeq(pnls) < -20 * last_n THEN rl1 + 1
               ELSE IF SumSeq(pnls) > 50 * last_n THEN rl1 - 1
               ELSE rl1
    IN  IF st.manual_mode # "auto"
        THEN ManualTrade(st, pnls)
        ELSE [st EXCEPT !.last_pnls = pnls, !.risk_level = rl2]

\* adaptive_on_trade for a closing trade (a trade type with a SELL keyword)
\* of a known symbol; manual_mode None is "auto" here
adaptive_on_trade(st, pnl_pct) ==
    LET pnls == AppendPnl(st.last_pnls, pnl_pct)
        rl1 == IF pnl_pct <= -30 THEN Min(st.risk_level + 1, MAX_RISK_LEVEL)
               ELSE IF pnl_pct >= 50 THEN Max(st.risk_level - 1, MIN_RISK_LEVEL)
               ELSE st.risk_level
        rl2 == IF Len(pnls) < last_n THEN rl1
               ELSE IF SumSeq(pnls) < -20 * last_n
                    THEN Min(rl1 + 1, MAX_RISK_LEVEL)
               ELSE IF SumSeq(pnls) > 50 * last_n
                    THEN Max(rl1 - 1, MIN_RISK_LEVEL)
               ELSE rl1
    IN  IF st.manual_mode # "auto"
        THEN ManualTrade(st, pnls)
        ELSE [st EXCEPT !.last_pnls = pnls, !.risk_level = rl2]

(***************************************************************************)
(* Strategy configuration and its adaptation to the risk level             *)
(***************************************************************************)
\* STRATEGY_CONFIG as the module sets it. sl_pct, tp_pct: 1/100000;
\* volume_mult: 1/1000; price_growth_min: 1/10000000; the rest as in the
\* source
DefaultConfig ==
    [rsi_min |-> 50, rsi_max |-> 70, volume_mult |-> 1500,
     price_growth_min |-> 5000, sl_pct |-> 2000, tp_pct |-> 4000,
     min_interval_sec |-> 300]

\* configurations saved earlier and restored by load_state: stop-loss,
\* volume multiplier and minimum interval at the ends their buttons lead to
\* or at the default
SavedConfigs ==
    { [DefaultConfig EXCEPT !.sl_pct = sl, !.volume_mult = vol,
                            !.min_interval_sec = sec] :
        sl \in {500, 2000, 10000}, vol \in {1000, 1500, 5000}, sec \in {0, 300} }

Clamp(lo, hi, x) == Max(lo, Min(hi, x))

\* get_symbol_config for a symbol of ADAPTIVE_STATE at this risk level
get_symbol_config(base, risk_level) ==
    LET rl == Clamp(MIN_RISK_LEVEL, MAX_RISK_LEVEL, risk_level)
        \* max(0.5, entry_factor), in tenths
        entry10 == Max(5, 10 - 2 * rl)
        rsi_min_new == Clamp(10, 80, base.rsi_min - 3 * rl)
        rsi_max_new == Clamp(20, 90, base.rsi_max - 3 * rl)
    IN  [base EXCEPT
            !.sl_pct = Clamp(300, 10000, (base.sl_pct * (10 - rl)) \div 10),
            !.tp_pct = Clamp(500, 25000, (base.tp_pct * (20 - rl)) \div 20),
            !.volume_mult = Max(1000, (base.volume_mult * 10) \div entry10),
            !.price_growth_min =
                Max(1000, (base.price_growth_min * 10) \div entry10),
            !.min_interval_sec =
                IF rl > 0 THEN (base.min_interval_sec * (10 + 2 * rl)) \div 10
                ELSE IF rl < 0
                     THEN Max(30, (base.min_interval_sec * (10 + rl)) \div 10)
                ELSE base.min_interval_sec,
            !.rsi_min = rsi_min_new,
            !.rsi_max = IF rsi_max_new <= rsi_min_new
                        THEN rsi_min_new + 5 ELSE rsi_max_new]

(***************************************************************************)
(* Executor: sizing of a buy                                               *)
(***************************************************************************)
\* a position size without the risk test
PositionSizeUsdt_m(usdt_free, override, entry_price, stop_loss) ==
    IF override > 0
    THEN Min(override, usdt_free)
    ELSE (usdt_free * position_size_pct) \div 100

\* position_size_usdt of execute_buy_from_signal (cents); override = 0 when
\* no amount was given
PositionSizeUsdt(usdt_free, override, entry_price, stop_loss) ==
    LET base == IF override > 0
                THEN Min(override, usdt_free)
                ELSE (usdt_free * position_size_pct) \div 100
        risky == (entry_price - stop_loss) * 100 > max_risk_per_trade * entry_price
    IN  IF risky
        THEN (usdt_free * max_risk_per_trade * entry_price)
                 \div (100 * (entry_price - stop_loss))
        ELSE base

\* amount = position_size_usdt / entry_price, in amount units
BuyAmount(size_usdt, entry_price) ==
    (size_usdt * ((PriceScale * AmountScale) \div UsdtScale)) \div entry_price

NewPosition(sid, sig, amount) ==
    [signal_id |-> sid,
     entry_price |-> sig.entry_price,
     entry_amount |-> amount,
     current_amount |-> amount,
     stop_loss |-> sig.stop_loss,
     tp1 |-> sig.tp1,
     tp2 |-> sig.tp2,
     trailing_stop |-> NoValue,
     max_price |-> NoValue,
     status |-> "open",
     close_reason |-> "none",
     realized_pnl |-> 0,
     total_pnl_usdt |-> 0]

\* a Trade row; pnl_usdt stays empty (0) on a buy
Trade(pid, side, amount, reason) ==
    [position_id |-> pid, side |-> side, amount |-> amount, reason |-> reason,
     pnl_usdt |-> 0]

\* the Trade row of a sell, with its realized P&L
SellTrade(pid, amount, reason, pnl_usdt) ==
    [Trade(pid, "SELL", amount, reason) EXCEPT !.pnl_usdt = pnl_usdt]

(***************************************************************************)
(* Executor: selling                                                       *)
(***************************************************************************)
\* a close status that does not know the TRAILING reason
get_close_status_m(reason) ==
    IF reason \in {"TP1", "TP2", "TP3"} THEN "closed_tp"
    ELSE IF reason = "SL" THEN "closed_sl"
    ELSE "closed_manual"

get_close_status(reason) ==
    IF reason \in {"TP1", "TP2", "TP3", "TRAILING"} THEN "closed_tp"
    ELSE IF reason = "SL" THEN "closed_sl"
    ELSE "closed_manual"

\* what the exchange reports as filled for an accepted sell order of this
\* amount (order['filled']): all of it, or a part
FillsOf(amount) == {amount, amount \div 2}

\* first database session of execute_sell: None for a closed position,
\* otherwise the amount capped by what the position still holds
SellAllowed(p) == p.status \notin ClosedStatuses
SellAmount(amount, p) == Min(amount, p.current_amount)

\* current_amount <= 0.0001
CloseReached(remaining) == remaining * 10000 <= AmountScale

\* a status update that looks at the reason before the remaining amount
SellStatus_m(p, remaining, reason) ==
    IF reason = "TP1" THEN "partial_tp1"
    ELSE IF reason = "TP2" THEN "partial_tp2"
    ELSE IF CloseReached(remaining) THEN get_close_status(reason)
    ELSE p.status

\* second database session of execute_sell, after the order was accepted
SellStatus(p, remaining, reason) ==
    IF CloseReached(remaining) THEN get_close_status(reason)
    ELSE IF reason = "TP1" THEN "partial_tp1"
    ELSE IF reason = "TP2" THEN "partial_tp2"
    ELSE p.status

\* pnl_usdt = sell_value - entry_value, in amount units times price units
PnlUsdt(sell_amount, current_price, entry_price) ==
    sell_amount * current_price - sell_amount * entry_price

\* current_price of a sell or a reconciliation: the last price of the
\* ticker read for it, or entry_price when that get_ticker fails
TickerOrEntry(entry_price) == engine.quotes \cup {entry_price}

SellCommit(p, sell_amount, reason, current_price) ==
    LET remaining == p.current_amount - sell_amount
        realized == p.realized_pnl + PnlUsdt(sell_amount, current_price, p.entry_price)
    IN  [p EXCEPT !.current_amount = remaining,
                  !.realized_pnl = realized,
                  !.status = SellStatus(p, remaining, reason),
                  !.close_reason = IF CloseReached(remaining)
                                   THEN reason ELSE p.close_reason,
                  !.total_pnl_usdt = IF CloseReached(remaining)
                                     THEN realized ELSE p.total_pnl_usdt]

\* the daily statistics after the second session of execute_sell left the
\* position as p: written only when p is closed and today's row exists
StatsAfterSell(st, p) ==
    IF p.status \in ClosedStatuses /\ st.row
    THEN [st EXCEPT
            !.total_pnl_usdt = @ + p.total_pnl_usdt,
            !.trades_won = IF p.total_pnl_usdt >= 0 THEN @ + 1 ELSE @,
            !.trades_lost = IF p.total_pnl_usdt >= 0 THEN @ ELSE @ + 1,
            !.stop_losses_today =
                IF p.total_pnl_usdt < 0 /\ p.status = "closed_sl" THEN @ + 1 ELSE @]
    ELSE st

(***************************************************************************)
(* Position manager                                                        *)
(***************************************************************************)
SnapshotOf(id) ==
    LET p == positions[id]
    IN  [id |-> id,
         entry_price |-> p.entry_price,
         current_amount |-> p.current_amount,
         stop_loss |-> p.stop_loss,
         tp1 |-> p.tp1,
         tp2 |-> p.tp2,
         max_price |-> p.max_price,
         trailing_stop |-> p.trailing_stop,
         status |-> p.status]

NoPos ==
    [id |-> 0, entry_price |-> 0, current_amount |-> 0, stop_loss |-> 0,
     tp1 |-> 0, tp2 |-> 0, max_price |-> NoValue, trailing_stop |-> NoValue,
     status |-> "none"]

RECURSIVE SnapshotFrom(_)
\* positions_data of check_all_positions: the non-closed positions, by id
SnapshotFrom(id) ==
    IF id > Len(positions) THEN << >>
    ELSE IF positions[id].status \in OpenStatuses
         THEN <<SnapshotOf(id)>> \o SnapshotFrom(id + 1)
         ELSE SnapshotFrom(id + 1)

\* amount_on_exchange < max(0.1, current_amount * 0.05), compared in 1/100
DustThreshold100(current_amount) == Max(10 * AmountScale, current_amount * dust_pct)
\* the dust test with min in place of max
BelowDust_m(amount_on_exchange, current_amount) ==
    amount_on_exchange * 100 < Min(10 * AmountScale, current_amount * dust_pct)

BelowDust(amount_on_exchange, current_amount) ==
    amount_on_exchange * 100 < DustThreshold100(current_amount)

\* _update_trailing on the database row
NewMaxPrice(p, price) ==
    IF p.max_price = NoValue \/ price > p.max_price THEN price ELSE p.max_price

NewTrailing(max_price) == (max_price * trailing_pct) \div 100

\* a trailing stop that follows the current price instead of the maximum
UpdateTrailing_m(p, price) ==
    [p EXCEPT !.max_price = NewMaxPrice(p, price),
              !.trailing_stop = IF p.status = "partial_tp2"
                                THEN NewTrailing(price) ELSE p.trailing_stop]

UpdateTrailing(p, price) ==
    LET mp == NewMaxPrice(p, price)
        nt == NewTrailing(mp)
    IN  [p EXCEPT !.max_price = mp,
                  !.trailing_stop =
                      IF p.status = "partial_tp2"
                         /\ (p.trailing_stop = NoValue \/ nt > p.trailing_stop)
                      THEN nt ELSE p.trailing_stop]

\* the four checks of _check_position, in the order of the code
Stages == <<"SL", "TP1", "TP2", "TRAILING">>

\* the checks with a strict stop-loss comparison
StageCond_m(k, snap, price) ==
    CASE k = 1 -> price < snap.stop_loss
      [] k = 2 -> snap.status = "open" /\ price >= snap.tp1
      [] k = 3 -> snap.status = "partial_tp1" /\ price >= snap.tp2
      [] k = 4 -> /\ snap.status = "partial_tp2"
                  /\ snap.trailing_stop # NoValue
                  /\ snap.trailing_stop > 0
                  /\ price <= snap.trailing_stop
      [] OTHER -> FALSE

StageCond(k, snap, price) ==
    CASE k = 1 -> price <= snap.stop_loss
      [] k = 2 -> snap.status = "open" /\ price >= snap.tp1
      [] k = 3 -> snap.status = "partial_tp1" /\ price >= snap.tp2
      [] k = 4 -> /\ snap.status = "partial_tp2"
                  /\ snap.trailing_stop # NoValue
                  /\ snap.trailing_stop > 0
                  /\ price <= snap.trailing_stop
      [] OTHER -> FALSE

\* TP2 selling tp2_close_pct of what is left
StageAmount_m(k, snap) ==
    CASE k = 2 -> (snap.current_amount * tp1_close_pct) \div 100
      [] k = 3 -> (snap.current_amount * tp2_close_pct) \div 100
      [] OTHER -> snap.current_amount

StageAmount(k, snap) ==
    CASE k = 2 -> (snap.current_amount * tp1_close_pct) \div 100
      [] k = 3 -> (snap.current_amount * tp2_close_pct) \div tp1_remaining_pct
      [] OTHER -> snap.current_amount

\* the first check after stage k whose condition holds, 0 when none does
NextStage(k, snap, price) ==
    IF \E j \in (k + 1)..4 : StageCond(j, snap, price)
    THEN CHOOSE j \in (k + 1)..4 :
             /\ StageCond(j, snap, price)
             /\ \A i \in (k + 1)..(j - 1) : ~StageCond(i, snap, price)
    ELSE 0

(***************************************************************************)
(* Initial states                                                          *)
(***************************************************************************)
\* main after it started the loops: running is set, no task was cancelled.
\* cut: where the position loop was when CancelledError reached it; orphan:
\* the exchange took a sell order whose execute_sell was cancelled; quotes:
\* the last prices the exchange answers to the ticker call of a sell or a
\* reconciliation (none: those calls fail)
Running ==
    [running |-> TRUE, pc |-> "run", cut |-> "none", orphan |-> FALSE,
     quotes |-> {}]

\* the position loop between two ticks
IdleLoop ==
    [pc |-> "idle", queue |-> << >>, pos |-> NoPos, balance |-> 0, price |-> 0,
     stage |-> 0, sell_amount |-> 0, issued |-> << >>, result |-> "None",
     actions |-> << >>, filled |-> NoValue, balance_ok |-> TRUE]

\* the update task with no handler running
IdleHandler ==
    [pc |-> "idle", kind |-> "none", id |-> 0, amount |-> 0, sell_amount |-> 0,
     answer |-> "none", price |-> 0, usdt_free |-> 0, size |-> 0,
     filled |-> NoValue]

\* today's DailyStats row with its column defaults; row: the row exists
NoStats ==
    [row |-> TRUE, signals_accepted |-> 0, signals_rejected |-> 0,
     trades_won |-> 0, trades_lost |-> 0, total_pnl_usdt |-> 0,
     stop_losses_today |-> 0]

\* the scan loop asleep between two passes, at hour 0, with no cooldown rows.
\* naive: the database hands last_signal_at back without a time zone
IdleScan ==
    [pc |-> "sleep", now |-> 0, todo |-> << >>, found |-> << >>,
     cooldown |-> [sym \in SymbolSet |-> NoValue], naive |-> FALSE,
     signals_sent |-> 0,
     btc_change |-> 0, market |-> [can_trade |-> TRUE, reasons |-> << >>],
     analysed |-> << >>, calls |-> << >>, passed |-> {}, ticker |-> FALSE,
     failed |-> FALSE]

\* ADAPTIVE_STATE after init_adaptive_state: every symbol at risk level 0
\* under the "normal" preset
InitialAdaptive ==
    [sym \in SymbolSet |->
        [risk_level |-> 0, manual_mode |-> "normal", trades_in_manual_mode |-> 0,
         last_pnls |-> << >>]]

NewSignal(lv, st) ==
    [status |-> st, price |-> lv.price, entry_price |-> lv.entry_price,
     stop_loss |-> lv.stop_loss, tp1 |-> lv.tp1, tp2 |-> lv.tp2]

\* a database whose signals are all waiting for a decision
Init ==
    /\ signals \in [SignalIds -> {NewSignal(lv, "pending") : lv \in LevelSets}]
    /\ positions = << >>
    /\ trades = << >>
    /\ stats = NoStats
    /\ buy_orders = [i \in SignalIds |-> 0]
    /\ pending_custom = 0
    /\ loop = IdleLoop
    /\ hd = IdleHandler
    /\ scan = IdleScan
    /\ adaptive = InitialAdaptive
    /\ engine = Running
    /\ STRATEGY_CONFIG = DefaultConfig

\* amounts execute_buy_from_signal gives a position of these signals
OpenAmounts(lv) ==
    { BuyAmount(PositionSizeUsdt(f, o, lv.entry_price, lv.stop_loss), lv.entry_price) :
        f \in {u \in UsdtFree : u >= min_usdt}, o \in BuyAmounts }

\* a database in which every signal has been executed and its position is open
InitTick ==
    /\ \E lvs \in [SignalIds -> LevelSets] :
       \E am \in [SignalIds -> UNION {OpenAmounts(lv) : lv \in LevelSets}] :
          /\ \A i \in SignalIds : am[i] \in OpenAmounts(lvs[i])
          /\ signals = [i \in SignalIds |-> NewSignal(lvs[i], "executed")]
          /\ positions = [i \in SignalIds |-> NewPosition(i, signals[i], am[i])]
          /\ trades = [i \in SignalIds |-> Trade(i, "BUY", am[i], "SIGNAL")]
    /\ stats = [NoStats EXCEPT !.signals_accepted = NumSignals]
    /\ buy_orders = [i \in SignalIds |-> 1]
    /\ pending_custom = 0
    /\ loop = IdleLoop
    /\ hd = IdleHandler
    /\ scan = IdleScan
    /\ adaptive = InitialAdaptive
    /\ engine = Running
    /\ STRATEGY_CONFIG = DefaultConfig

(***************************************************************************)
(* Position loop: check_all_positions and _check_position                  *)
(***************************************************************************)
Action(name, l, amount) ==
    [action |-> name, position_id |-> l.pos.id, amount |-> amount]

\* _check_position is about to return result (an action name or "None")
LoopReturn(l, result, amount) ==
    [l EXCEPT !.pc = "return", !.result = result,
              !.actions = IF result = "None" THEN l.actions
                          ELSE Append(l.actions, Action(result, l, amount))]

\* the next position of the snapshot, or the end of the tick, where the
\* actions are returned to position_loop and reported
LoopAdvance(l) ==
    IF l.queue = << >>
    THEN [IdleLoop EXCEPT !.pc = "report", !.actions = l.actions]
    ELSE [IdleLoop EXCEPT !.pc = "balance", !.pos = Head(l.queue),
                          !.queue = Tail(l.queue), !.actions = l.actions]

\* the checks after stage k, run against the database rows db: either the
\* next execute_sell gets as far as its order, or _check_position returns None
LoopAttempt(l, k, price, db) ==
    LET j == NextStage(k, l.pos, price)
        p == db[l.pos.id]
    IN  IF j = 0 \/ ~SellAllowed(p)
        THEN LoopReturn([l EXCEPT !.price = price], "None", 0)
        ELSE [l EXCEPT !.pc = "sell", !.price = price, !.stage = j,
                       !.sell_amount = SellAmount(StageAmount(j, l.pos), p),
                       !.issued = Append(l.issued, Stages[j])]

TickStart ==
    /\ loop.pc = "idle"
    /\ engine.running
    /\ loop' = LoopAdvance([IdleLoop EXCEPT !.queue = SnapshotFrom(1)])
    /\ UNCHANGED <<signals, positions, trades, stats, buy_orders, pending_custom, hd, scan, adaptive, engine, STRATEGY_CONFIG>>

\* amount_on_exchange of _check_position: the total of the asset, or 0 when
\* the balance has no entry for it, as after a failed request (NoValue),
\* for which get_balance returns {}
AmountOnExchange(reply) == IF reply = NoValue THEN 0 ELSE reply

\* get_balance returned or failed: reconciliation or the ticker request
CheckBalance ==
    /\ loop.pc = "balance"
    /\ \E reply \in ExchangeAmounts \cup {NoValue} :
          LET amount_on_exchange == AmountOnExchange(reply)
          IN  loop' = [loop EXCEPT !.balance = amount_on_exchange,
                                   !.balance_ok = reply # NoValue,
                                   !.pc = IF BelowDust(amount_on_exchange,
                                                       loop.pos.current_amount)
                                          THEN "recon" ELSE "ticker"]
    /\ UNCHANGED <<signals, positions, trades, stats, buy_orders, pending_custom, hd, scan, adaptive, engine, STRATEGY_CONFIG>>

\* the position is taken as closed on the exchange
ReconCommit ==
    /\ loop.pc = "recon"
    /\ \E current_price \in TickerOrEntry(loop.pos.entry_price) :
          LET pnl_usdt == (current_price - loop.pos.entry_price)
                              * loop.pos.current_amount
          IN  /\ trades' = Append(trades,
                                 SellTrade(loop.pos.id, loop.pos.current_amount,
                                           "MANUAL_EXTERNAL", pnl_usdt))
              /\ positions' = [positions EXCEPT
                                  ![loop.pos.id].status = "closed_manual",
                                  ![loop.pos.id].close_reason = "MANUAL_EXTERNAL",
                                  ![loop.pos.id].total_pnl_usdt = pnl_usdt]
    /\ loop' = LoopReturn(loop, "SYNC_CLOSED", loop.pos.current_amount)
    /\ UNCHANGED <<signals, stats, buy_orders, pending_custom, hd, scan, adaptive, engine, STRATEGY_CONFIG>>

\* get_ticker failed: no action for this position
CheckNoTicker ==
    /\ loop.pc = "ticker"
    /\ loop' = LoopReturn(loop, "None", 0)
    /\ UNCHANGED <<signals, positions, trades, stats, buy_orders, pending_custom, hd, scan, adaptive, engine, STRATEGY_CONFIG>>

\* get_ticker returned a price: _update_trailing, then the SL/TP/trailing
\* checks up to the first sell order
CheckPrice ==
    /\ loop.pc = "ticker"
    /\ \E current_price \in Prices :
          /\ positions' = [positions EXCEPT ![loop.pos.id] =
                              UpdateTrailing(positions[loop.pos.id], current_price)]
          /\ loop' = LoopAttempt(loop, 0, current_price, positions')
    /\ UNCHANGED <<signals, trades, stats, buy_orders, pending_custom, hd, scan, adaptive, engine, STRATEGY_CONFIG>>

\* the market order was accepted, filled in full or in part: the second
\* session of execute_sell, which works with the amount it asked for
SellFilled ==
    /\ loop.pc = "sell"
    /\ LET id == loop.pos.id
           reason == Stages[loop.stage]
       IN  /\ \E current_price \in TickerOrEntry(loop.pos.entry_price) :
                  /\ positions' = [positions EXCEPT ![id] =
                                      SellCommit(positions[id], loop.sell_amount,
                                                 reason, current_price)]
                  /\ trades' = Append(trades,
                         SellTrade(id, loop.sell_amount, reason,
                                   PnlUsdt(loop.sell_amount, current_price,
                                           loop.pos.entry_price)))
           /\ stats' = StatsAfterSell(stats, positions'[id])
           /\ \E filled \in FillsOf(loop.sell_amount) :
                  loop' = LoopReturn([loop EXCEPT !.filled = filled], reason,
                                     loop.sell_amount)
    /\ UNCHANGED <<signals, buy_orders, pending_custom, hd, scan, adaptive, engine, STRATEGY_CONFIG>>

\* the market order failed: execute_sell returned None and the checks go on
SellRejected ==
    /\ loop.pc = "sell"
    /\ loop' = LoopAttempt(loop, loop.stage, loop.price, positions)
    /\ UNCHANGED <<signals, positions, trades, stats, buy_orders, pending_custom, hd, scan, adaptive, engine, STRATEGY_CONFIG>>

\* _check_position returned; the loop goes on with the next position
CheckReturn ==
    /\ loop.pc = "return"
    /\ loop' = LoopAdvance(loop)
    /\ UNCHANGED <<signals, positions, trades, stats, buy_orders, pending_custom, hd, scan, adaptive, engine, STRATEGY_CONFIG>>

\* position_loop sent the notifications and sleeps until the next tick
TickEnd ==
    /\ loop.pc = "report"
    /\ loop' = IdleLoop
    /\ UNCHANGED <<signals, positions, trades, stats, buy_orders, pending_custom, hd, scan, adaptive, engine, STRATEGY_CONFIG>>

NextTick ==
    \/ TickStart
    \/ TickEnd
    \/ CheckBalance
    \/ ReconCommit
    \/ CheckNoTicker
    \/ CheckPrice
    \/ SellFilled
    \/ SellRejected
    \/ CheckReturn

SpecTick == InitTick /\ [][NextTick]_vars

(***************************************************************************)
(* Shutdown: signal_handler and the end of main                            *)
(***************************************************************************)
NotEngine == <<signals, positions, trades, stats, buy_orders, pending_custom, hd,
               scan, adaptive, STRATEGY_CONFIG>>

\* SIGINT / SIGTERM: signal_handler clears running
Sigterm ==
    /\ engine.running
    /\ engine' = [engine EXCEPT !.running = FALSE]
    /\ UNCHANGED <<loop, NotEngine>>

\* the awaits of the position loop: its sleep, the balance, ticker and order
\* requests, the ticker request of the reconciliation, the notifications
AwaitPcs == {"idle", "balance", "recon", "ticker", "sell", "report"}

\* main saw running cleared and cancels the position task, which is waiting
\* in one of its awaits: CancelledError is raised there and, not being an
\* Exception, passes every `except Exception` up to position_loop, which
\* breaks.  Only the bare except around the ticker request of the
\* reconciliation swallows it, and the tick goes on.  An order request that
\* is cut may or may not have reached the exchange
CancelTasks ==
    /\ ~engine.running
    /\ engine.pc = "run"
    /\ loop.pc \in AwaitPcs
    /\ IF loop.pc = "recon"
       THEN /\ engine' = [engine EXCEPT !.pc = "joining"]
            /\ UNCHANGED loop
       ELSE /\ \E taken \in BOOLEAN :
                  engine' = [engine EXCEPT !.pc = "joining", !.cut = loop.pc,
                                           !.orphan = taken /\ loop.pc = "sell"]
            /\ loop' = [loop EXCEPT !.pc = "stopped"]
    /\ UNCHANGED NotEngine

\* the sleep of position_loop ended with running cleared: the while loop ends
LoopExit ==
    /\ loop.pc = "idle"
    /\ ~engine.running
    /\ loop' = [loop EXCEPT !.pc = "stopped"]
    /\ UNCHANGED <<engine, NotEngine>>

\* the tasks have ended: main stops Telegram and closes the exchange
MainClose ==
    /\ loop.pc = "stopped"
    /\ engine.pc \in {"run", "joining"}
    /\ ~engine.running
    /\ engine' = [engine EXCEPT !.pc = "closed"]
    /\ UNCHANGED <<loop, NotEngine>>

NextShutdown ==
    \/ Sigterm
    \/ CancelTasks
    \/ LoopExit
    \/ MainClose

(***************************************************************************)
(* Telegram handlers (one update is handled at a time)                     *)
(***************************************************************************)
\* the handler sends its last message (answer) and returns
HandlerDone(h, answer) == [h EXCEPT !.pc = "done", !.answer = answer]

\* a status test that only turns away rejected signals
StillPending_m(sig) == sig.status # "rejected"

\* a status test that lets an accepted signal be decided again
StillPending_m2(sig) == sig.status \in {"pending", "accepted"}

\* the status test of handle_buy_signal and handle_skip_signal
StillPending(sig) == sig.status = "pending"

\* handle_skip_signal
PressSkip ==
    /\ hd.pc = "idle"
    /\ \E sid \in CallbackIds :
          IF sid \in SignalIds /\ StillPending(signals[sid])
          THEN /\ signals' = [signals EXCEPT ![sid].status = "rejected"]
               /\ stats' = IF stats.row
                            THEN [stats EXCEPT !.signals_rejected = @ + 1]
                            ELSE stats
               /\ hd' = HandlerDone([IdleHandler EXCEPT !.kind = "skip", !.id = sid],
                                     "skipped")
          ELSE /\ hd' = HandlerDone([IdleHandler EXCEPT !.kind = "skip", !.id = sid],
                                     "ignored")
               /\ UNCHANGED <<signals, stats>>
    /\ UNCHANGED <<positions, trades, buy_orders, pending_custom, loop, scan, adaptive, engine, STRATEGY_CONFIG>>

\* handle_buy_signal with an amount button, up to the ticker request
PressBuy ==
    /\ hd.pc = "idle"
    /\ \E sid \in CallbackIds, amount_usdt \in BuyAmounts :
          hd' = IF sid \notin SignalIds
                THEN HandlerDone([IdleHandler EXCEPT !.kind = "buy", !.id = sid],
                                 "not_found")
                ELSE IF StillPending(signals[sid])
                THEN [IdleHandler EXCEPT !.pc = "buy_ticker", !.kind = "buy",
                                         !.id = sid, !.amount = amount_usdt]
                ELSE HandlerDone([IdleHandler EXCEPT !.kind = "buy", !.id = sid],
                                 "already_processed")
    /\ UNCHANGED <<signals, positions, trades, stats, buy_orders, pending_custom, loop, scan, adaptive, engine, STRATEGY_CONFIG>>

\* price_diff > 0.01 of handle_buy_signal
PriceGone(current_price, signal_price) ==
    (current_price - signal_price) * 100 > drift_pct * signal_price

\* the drift check and the decision; a failed ticker leaves signal.price
BuyDecide ==
    /\ hd.pc = "buy_ticker"
    /\ \E current_price \in Prices \cup {signals[hd.id].price} :
          IF PriceGone(current_price, signals[hd.id].price)
          THEN /\ signals' = [signals EXCEPT ![hd.id].status = "expired"]
               /\ hd' = HandlerDone([hd EXCEPT !.price = current_price],
                                     "price_gone")
               /\ UNCHANGED stats
          ELSE /\ signals' = [signals EXCEPT ![hd.id].status = "accepted"]
               /\ stats' = IF stats.row
                            THEN [stats EXCEPT !.signals_accepted = @ + 1]
                            ELSE stats
               /\ hd' = [hd EXCEPT !.pc = "buy_answer", !.answer = "accepting",
                                   !.price = current_price]
    /\ UNCHANGED <<positions, trades, buy_orders, pending_custom, loop, scan, adaptive, engine, STRATEGY_CONFIG>>

\* execute_buy_from_signal up to the balance request
BuyBegin ==
    /\ hd.pc = "buy_answer"
    /\ hd' = IF signals[hd.id].status = "accepted"
             THEN [hd EXCEPT !.pc = "buy_balance"]
             ELSE HandlerDone(hd, "buy_failed")
    /\ UNCHANGED <<signals, positions, trades, stats, buy_orders, pending_custom, loop, scan, adaptive, engine, STRATEGY_CONFIG>>

\* sizing and order without the test of the minimum of 10 USDT
BuyBalanceOf_m(balances) ==
    /\ hd.pc = "buy_balance"
    /\ \E usdt_free \in balances :
          LET sig == signals[hd.id]
              size == PositionSizeUsdt(usdt_free, hd.amount,
                                       sig.entry_price, sig.stop_loss)
          IN  /\ hd' = [hd EXCEPT !.pc = "buy_order",
                                  !.usdt_free = usdt_free,
                                  !.size = size,
                                  !.amount = BuyAmount(size, sig.entry_price)]
              /\ buy_orders' = [buy_orders EXCEPT ![hd.id] = @ + 1]
    /\ UNCHANGED <<signals, positions, trades, stats, pending_custom, loop, scan, adaptive, engine, STRATEGY_CONFIG>>

\* the balance arrived: sizing, then the limit order is sent; a failed
\* balance call reads as no free USDT.  balances: what the call may report
BuyBalanceOf(balances) ==
    /\ hd.pc = "buy_balance"
    /\ \E usdt_free \in balances :
          LET sig == signals[hd.id]
              size == PositionSizeUsdt(usdt_free, hd.amount,
                                       sig.entry_price, sig.stop_loss)
          IN  IF usdt_free < min_usdt
              THEN /\ hd' = HandlerDone([hd EXCEPT !.usdt_free = usdt_free],
                                         "buy_failed")
                   /\ UNCHANGED buy_orders
              ELSE /\ hd' = [hd EXCEPT !.pc = "buy_order",
                                       !.usdt_free = usdt_free,
                                       !.size = size,
                                       !.amount = BuyAmount(size, sig.entry_price)]
                   /\ buy_orders' = [buy_orders EXCEPT ![hd.id] = @ + 1]
    /\ UNCHANGED <<signals, positions, trades, stats, pending_custom, loop, scan, adaptive, engine, STRATEGY_CONFIG>>

BuyBalance == BuyBalanceOf(UsdtFree \cup {0})

\* create_limit_order returned the order the exchange took, of which
\* nothing or everything has filled so far: position, buy trade, signal
\* executed
BuyFilled ==
    /\ hd.pc = "buy_order"
    /\ positions' = Append(positions, NewPosition(hd.id, signals[hd.id], hd.amount))
    /\ trades' = Append(trades, Trade(Len(positions) + 1, "BUY", hd.amount, "SIGNAL"))
    /\ signals' = [signals EXCEPT ![hd.id].status = "executed"]
    /\ \E filled \in {0, hd.amount} :
          hd' = HandlerDone([hd EXCEPT !.filled = filled], "bought")
    /\ UNCHANGED <<stats, buy_orders, pending_custom, loop, scan, adaptive, engine, STRATEGY_CONFIG>>

\* a failed order that puts the signal back for another decision
BuyRejected_m ==
    /\ hd.pc = "buy_order"
    /\ hd' = HandlerDone(hd, "buy_failed")
    /\ signals' = [signals EXCEPT ![hd.id].status = "pending"]
    /\ UNCHANGED <<positions, trades, stats, buy_orders, pending_custom, loop, scan, adaptive, engine, STRATEGY_CONFIG>>

\* create_limit_order returned None
BuyRejected ==
    /\ hd.pc = "buy_order"
    /\ hd' = HandlerDone(hd, "buy_failed")
    /\ UNCHANGED <<signals, positions, trades, stats, buy_orders, pending_custom, loop, scan, adaptive, engine, STRATEGY_CONFIG>>

\* the "own amount" button of handle_buy_signal: the signal id is parked
\* until the user types an amount
PressCustom ==
    /\ hd.pc = "idle"
    /\ \E sid \in SignalIds :
          /\ pending_custom' = sid
          /\ hd' = HandlerDone([IdleHandler EXCEPT !.kind = "custom", !.id = sid],
                                "enter_amount")
    /\ UNCHANGED <<signals, positions, trades, stats, buy_orders, loop, scan, adaptive, engine, STRATEGY_CONFIG>>

\* handle_custom_amount_message with a valid amount, up to its reply
CustomAmount ==
    /\ hd.pc = "idle"
    /\ pending_custom # 0
    /\ hd' = [IdleHandler EXCEPT !.pc = "custom_reply", !.kind = "custom",
                                  !.id = pending_custom]
    /\ pending_custom' = 0
    /\ UNCHANGED <<signals, positions, trades, stats, buy_orders, loop, scan, adaptive, engine, STRATEGY_CONFIG>>

\* the rest of handle_custom_amount_message: the signal is still pending when
\* execute_buy_from_signal is reached, so the executor declines it
CustomBuy ==
    /\ hd.pc = "custom_reply"
    /\ hd' = IF StillPending(signals[hd.id])
             THEN IF signals[hd.id].status = "accepted"
                  THEN [hd EXCEPT !.pc = "buy_balance"]
                  ELSE HandlerDone(hd, "buy_failed")
             ELSE HandlerDone(hd, "already_processed")
    /\ UNCHANGED <<signals, positions, trades, stats, buy_orders, pending_custom, loop, scan, adaptive, engine, STRATEGY_CONFIG>>

\* handle_close_position up to its first answer
PressClose ==
    /\ hd.pc = "idle"
    /\ \E pid \in PosIds :
          hd' = IF positions[pid].status \in OpenStatuses
                THEN [IdleHandler EXCEPT !.pc = "close_answer", !.kind = "close",
                                         !.id = pid,
                                         !.amount = positions[pid].current_amount]
                ELSE HandlerDone([IdleHandler EXCEPT !.kind = "close", !.id = pid],
                                 "already_closed")
    /\ UNCHANGED <<signals, positions, trades, stats, buy_orders, pending_custom, loop, scan, adaptive, engine, STRATEGY_CONFIG>>

\* execute_sell of the manual close, first session
CloseBegin ==
    /\ hd.pc = "close_answer"
    /\ hd' = IF SellAllowed(positions[hd.id])
             THEN [hd EXCEPT !.pc = "close_sell",
                             !.sell_amount = SellAmount(hd.amount, positions[hd.id])]
             ELSE HandlerDone(hd, "already_closed")
    /\ UNCHANGED <<signals, positions, trades, stats, buy_orders, pending_custom, loop, scan, adaptive, engine, STRATEGY_CONFIG>>

\* the market order of the manual close was accepted
CloseFilled ==
    /\ hd.pc = "close_sell"
    /\ \E current_price \in TickerOrEntry(positions[hd.id].entry_price) :
          /\ positions' = [positions EXCEPT ![hd.id] =
                              SellCommit(positions[hd.id], hd.sell_amount,
                                         "MANUAL", current_price)]
          /\ trades' = Append(trades,
                 SellTrade(hd.id, hd.sell_amount, "MANUAL",
                           PnlUsdt(hd.sell_amount, current_price,
                                   positions[hd.id].entry_price)))
    /\ stats' = StatsAfterSell(stats, positions'[hd.id])
    /\ \E filled \in FillsOf(hd.sell_amount) :
          hd' = HandlerDone([hd EXCEPT !.filled = filled], "closed")
    /\ UNCHANGED <<signals, buy_orders, pending_custom, loop, scan, adaptive, engine, STRATEGY_CONFIG>>

\* a failed manual close that books the sell all the same
CloseRejected_m ==
    /\ hd.pc = "close_sell"
    /\ hd' = HandlerDone(hd, "close_failed")
    /\ positions' = [positions EXCEPT ![hd.id] =
                        SellCommit(positions[hd.id], hd.sell_amount, "MANUAL",
                                   positions[hd.id].entry_price)]
    /\ UNCHANGED <<signals, trades, stats, buy_orders, pending_custom, loop, scan, adaptive, engine, STRATEGY_CONFIG>>

\* the market order of the manual close failed
CloseRejected ==
    /\ hd.pc = "close_sell"
    /\ hd' = HandlerDone(hd, "close_failed")
    /\ UNCHANGED <<signals, positions, trades, stats, buy_orders, pending_custom, loop, scan, adaptive, engine, STRATEGY_CONFIG>>

\* the handler returned; the next update can be taken
HandlerReturn ==
    /\ hd.pc = "done"
    /\ hd' = IdleHandler
    /\ UNCHANGED <<signals, positions, trades, stats, buy_orders, pending_custom, loop, scan, adaptive, engine, STRATEGY_CONFIG>>

NextHandler ==
    \/ HandlerReturn
    \/ PressSkip
    \/ PressBuy
    \/ BuyDecide
    \/ BuyBegin
    \/ BuyBalance
    \/ BuyFilled
    \/ BuyRejected
    \/ PressCustom
    \/ CustomAmount
    \/ CustomBuy
    \/ PressClose
    \/ CloseBegin
    \/ CloseFilled
    \/ CloseRejected

Next == NextTick \/ NextHandler

Spec == Init /\ [][Next]_vars

\* the update task alone
SpecDecide == Init /\ [][NextHandler]_vars

\* the manual close button
NextClose ==
    \/ PressClose
    \/ CloseBegin
    \/ CloseFilled
    \/ CloseRejected
    \/ HandlerReturn

\* a database in which the first signal has been executed and its position
\* is open, and every other signal was skipped
InitClose ==
    /\ \E lvs \in [SignalIds -> LevelSets] :
       \E am \in OpenAmounts(lvs[1]) :
          /\ signals = [i \in SignalIds |->
                           NewSignal(lvs[i], IF i = 1 THEN "executed" ELSE "rejected")]
          /\ positions = <<NewPosition(1, signals[1], am)>>
          /\ trades = <<Trade(1, "BUY", am, "SIGNAL")>>
    /\ stats = [NoStats EXCEPT !.signals_accepted = 1,
                               !.signals_rejected = NumSignals - 1]
    /\ buy_orders = [i \in SignalIds |-> IF i = 1 THEN 1 ELSE 0]
    /\ pending_custom = 0
    /\ loop = IdleLoop
    /\ hd = IdleHandler
    /\ scan = IdleScan
    /\ adaptive = InitialAdaptive
    /\ engine = Running
    /\ STRATEGY_CONFIG = DefaultConfig

\* one open position under the position loop and the close button
SpecClose == InitClose /\ [][NextTick \/ NextClose]_vars

\* the database of InitClose on a day on which save_signal_to_db has or has
\* not yet created the DailyStats row, with an exchange that answers the
\* ticker calls of the sells with a price below every stop-loss or above the
\* first take-profit
InitLedger ==
    /\ \E lv \in LevelSets :
       \E am \in OpenAmounts(lv) :
          /\ signals = [i \in SignalIds |->
                           NewSignal(lv, IF i = 1 THEN "executed" ELSE "rejected")]
          /\ positions = <<NewPosition(1, signals[1], am)>>
          /\ trades = <<Trade(1, "BUY", am, "SIGNAL")>>
    /\ \E row \in BOOLEAN : stats = [NoStats EXCEPT !.row = row]
    /\ buy_orders = [i \in SignalIds |-> IF i = 1 THEN 1 ELSE 0]
    /\ pending_custom = 0
    /\ loop = IdleLoop
    /\ hd = IdleHandler
    /\ scan = IdleScan
    /\ adaptive = InitialAdaptive
    /\ engine = [Running EXCEPT !.quotes = {9700, 10700}]
    /\ STRATEGY_CONFIG = DefaultConfig

\* one open position under the position loop, with the realized P&L and the
\* daily statistics of its sells
SpecLedger == InitLedger /\ [][NextTick]_vars

\* the position loop when the exchange turns every sell order down
NextReject ==
    \/ TickStart
    \/ TickEnd
    \/ CheckBalance
    \/ ReconCommit
    \/ CheckNoTicker
    \/ CheckPrice
    \/ SellRejected
    \/ CheckReturn

\* one open position whose closing orders are all rejected; asyncio keeps
\* running the position loop
SpecReject == InitClose /\ [][NextReject]_vars /\ WF_vars(NextReject)

\* one open position under the position loop while the engine is shut down
SpecShutdown == InitClose /\ [][NextTick \/ NextShutdown]_vars

\* execute_buy_from_signal after its status test, for every accepted signal,
\* override and balance of the sizing inputs
InitSizing ==
    /\ signals \in [SignalIds ->
                       {NewSignal([price |-> 10000, entry_price |-> 10020,
                                   stop_loss |-> sl, tp1 |-> 10500, tp2 |-> 11000],
                                  "accepted") : sl \in SizingStops}]
    /\ positions = << >>
    /\ trades = << >>
    /\ stats = [NoStats EXCEPT !.signals_accepted = NumSignals]
    /\ buy_orders = [i \in SignalIds |-> 0]
    /\ pending_custom = 0
    /\ loop = IdleLoop
    /\ \E sid \in SignalIds, override \in SizingOverrides :
          hd = [IdleHandler EXCEPT !.pc = "buy_balance", !.kind = "buy",
                                   !.id = sid, !.amount = override]
    /\ scan = IdleScan
    /\ adaptive = InitialAdaptive
    /\ engine = Running
    /\ STRATEGY_CONFIG = DefaultConfig

SizeOrder == BuyBalanceOf(SizingFree)

NextSizing ==
    \/ SizeOrder
    \/ BuyFilled
    \/ BuyRejected
    \/ HandlerReturn

SpecSizing == InitSizing /\ [][NextSizing]_vars

(***************************************************************************)
(* Scan loop: scan_all, analyze_symbol, save_signal_to_db                  *)
(***************************************************************************)
\* a cooldown test in which any full hour since the last signal is enough
CooldownPassed_m(sc, symbol) ==
    \/ sc.cooldown[symbol] = NoValue
    \/ /\ ~sc.naive
       /\ sc.now - sc.cooldown[symbol] >= 1

\* check_symbol_cooldown inside analyze_symbol: True without a cooldown row
\* or after signal_cooldown_hours; subtracting a naive last_signal_at from
\* the aware now raises, and analyze_symbol then returns None
CooldownPassed(sc, symbol) ==
    \/ sc.cooldown[symbol] = NoValue
    \/ /\ ~sc.naive
       /\ sc.now - sc.cooldown[symbol] >= signal_cooldown_hours

\* the Signal row save_signal_to_db writes
ScannedSignal(symbol, now) ==
    [status |-> "pending", symbol |-> symbol, created_at |-> now,
     price |-> 10000, entry_price |-> 10020, stop_loss |-> 9800,
     tp1 |-> 10500, tp2 |-> 11000]

\* an empty database; either kind of timestamp from the database driver
InitScan ==
    /\ signals = << >>
    /\ positions = << >>
    /\ trades = << >>
    /\ stats = NoStats
    /\ buy_orders = << >>
    /\ pending_custom = 0
    /\ loop = IdleLoop
    /\ hd = IdleHandler
    /\ scan \in {[IdleScan EXCEPT !.naive = b] : b \in BOOLEAN}
    /\ adaptive = InitialAdaptive
    /\ engine = Running
    /\ STRATEGY_CONFIG = DefaultConfig

Others == <<positions, trades, stats, buy_orders, pending_custom, loop, hd, adaptive, engine, STRATEGY_CONFIG>>

\* the hour of the day (UTC) of the clock
Hour(now) == now % 24

OpenCount == Cardinality({id \in DOMAIN positions : positions[id].status \in OpenStatuses})

\* s with x appended when the condition holds
AppendIf(s, cond, x) == IF cond THEN Append(s, x) ELSE s

\* market conditions that do not look at the number of open positions
check_market_conditions_m(btc_change, now) ==
    LET r1 == AppendIf(<< >>, btc_change < btc_drop_threshold, "btc")
        r2 == AppendIf(r1, night_start <= Hour(now) /\ Hour(now) < night_end, "night")
        r3 == AppendIf(r2, stats.stop_losses_today >= max_daily_losses, "stops")
    IN  [can_trade |-> r3 = << >>, reasons |-> r3]

\* check_market_conditions: the four tests in the order of the code, each
\* adding its reason
check_market_conditions(btc_change, now) ==
    LET r1 == AppendIf(<< >>, btc_change < btc_drop_threshold, "btc")
        r2 == AppendIf(r1, night_start <= Hour(now) /\ Hour(now) < night_end, "night")
        r3 == AppendIf(r2, stats.stop_losses_today >= max_daily_losses, "stops")
        r4 == AppendIf(r3, OpenCount >= max_positions, "positions")
    IN  [can_trade |-> r4 = << >>, reasons |-> r4]

\* scan_loop wakes up; scan_all asks for the BTC candles of
\* check_market_conditions
ScanStart ==
    /\ scan.pc = "sleep"
    /\ scan' = [scan EXCEPT !.pc = "conditions", !.todo = << >>, !.found = << >>,
                            !.analysed = << >>, !.calls = << >>, !.passed = {},
                            !.ticker = FALSE, !.failed = FALSE]
    /\ UNCHANGED <<signals, Others>>

\* the BTC change arrived: the rest of check_market_conditions, then scan_all
\* returns [] or starts on the list of pairs
CheckMarket ==
    /\ scan.pc = "conditions"
    /\ \E btc_change \in BtcChanges :
          LET market == check_market_conditions(btc_change, scan.now)
          IN  scan' = [scan EXCEPT !.btc_change = btc_change,
                                  !.market = market,
                                  !.pc = IF market.can_trade THEN "analyze" ELSE "sleep",
                                  !.todo = IF market.can_trade THEN Symbols ELSE << >>]
    /\ UNCHANGED <<signals, Others>>

\* analyze_symbol returned None for the pair (or raised inside scan_all):
\* the next pair
NoSignal(sc) == [sc EXCEPT !.pc = "analyze", !.todo = Tail(sc.todo)]

\* an exception inside analyze_symbol: logged, None for this pair
Failed(sc) == NoSignal([sc EXCEPT !.failed = TRUE])

\* analyze_symbol for the next pair, step 1: check_symbol_cooldown
AnalyzeCooldown ==
    /\ scan.pc = "analyze"
    /\ scan.todo # << >>
    /\ LET symbol == Head(scan.todo)
           sc == [scan EXCEPT !.analysed = Append(@, symbol),
                              !.calls = <<"cooldown">>, !.passed = {},
                              !.ticker = FALSE, !.failed = FALSE]
       IN  scan' = IF scan.cooldown[symbol] # NoValue /\ scan.naive
                   THEN Failed(sc)
                   ELSE IF CooldownPassed(scan, symbol)
                   THEN [sc EXCEPT !.pc = "candles", !.passed = {"cooldown"}]
                   ELSE NoSignal(sc)
    /\ UNCHANGED <<signals, Others>>

\* the cheap checks with the breakout test left out
CandlesPass_m(enough, accumulation, breakout) == enough /\ accumulation

\* steps 2-5 on the 5m candles: at least 120 of them, accumulation, breakout
CandlesPass(enough, accumulation, breakout) == enough /\ accumulation /\ breakout

\* the candles arrived: indicators, accumulation and breakout, which the
\* market decides; a failed request gives no candles (not enough), and the
\* indicators may raise
AnalyzeCandles ==
    /\ scan.pc = "candles"
    /\ \E enough, accumulation, breakout, raised \in BOOLEAN :
          LET sc == [scan EXCEPT
                        !.calls = Append(@, "ohlcv"),
                        !.passed = @ \cup (IF enough /\ accumulation
                                           THEN {"accumulation"} ELSE {})
                                     \cup (IF enough /\ accumulation /\ breakout
                                           THEN {"breakout"} ELSE {})]
          IN  scan' = IF raised THEN Failed([scan EXCEPT !.calls = Append(@, "ohlcv")])
                      ELSE IF CandlesPass(enough, accumulation, breakout)
                      THEN [sc EXCEPT !.pc = "ticker"]
                      ELSE NoSignal(sc)
    /\ UNCHANGED <<signals, Others>>

\* step 6: the ticker arrived or failed; the order book is asked for next
AnalyzeTicker ==
    /\ scan.pc = "ticker"
    /\ \E ticker \in BOOLEAN :
          scan' = [scan EXCEPT !.pc = "orderbook", !.ticker = ticker,
                              !.failed = ~ticker,
                              !.calls = Append(@, "ticker")]
    /\ UNCHANGED <<signals, Others>>

\* steps 6-7: the order book arrived or failed; spread, bid/ask ratio and
\* the false-pump filter
AnalyzeOrderbook ==
    /\ scan.pc = "orderbook"
    /\ \E orderbook, passed_filter, raised \in BOOLEAN :
          LET sc == [scan EXCEPT !.calls = Append(@, "orderbook"),
                                 !.failed = @ \/ ~orderbook]
          IN  scan' = IF ~scan.ticker \/ ~orderbook THEN NoSignal(sc)
                      ELSE IF raised THEN Failed(sc)
                      ELSE IF passed_filter
                      THEN [sc EXCEPT !.pc = "daily", !.passed = @ \cup {"filter"}]
                      ELSE NoSignal(sc)
    /\ UNCHANGED <<signals, Others>>

\* from_low_pct > max_from_daily_low_pct
TooFarFromLow(current_price, daily_low) ==
    (current_price - daily_low) * 100 > max_from_daily_low_pct * daily_low

\* step 8 and the rest: the daily candle arrived or the request gave none,
\* in which case the FOMO test is left out; then levels and the signal
AnalyzeDaily ==
    /\ scan.pc = "daily"
    /\ \E daily_low \in DailyLows :
          LET symbol == Head(scan.todo)
              price == ScannedSignal(symbol, scan.now).price
              sc == [scan EXCEPT !.calls = Append(@, "ohlcv_1d"),
                                 !.failed = daily_low = NoValue]
          IN  scan' = IF daily_low = NoValue
                      THEN NoSignal([sc EXCEPT !.found = Append(@, symbol)])
                      ELSE IF TooFarFromLow(price, daily_low)
                      THEN NoSignal(sc)
                      ELSE NoSignal([sc EXCEPT !.found = Append(@, symbol),
                                               !.passed = @ \cup {"fomo"}])
    /\ UNCHANGED <<signals, Others>>

\* analyze_symbol, await by await
AnalyzeSymbol ==
    \/ AnalyzeCooldown
    \/ AnalyzeCandles
    \/ AnalyzeTicker
    \/ AnalyzeOrderbook
    \/ AnalyzeDaily

\* scan_all returns its signals to scan_loop, which saves them one by one
\* or, with none found, sleeps until the next pass
ScanReturn ==
    /\ scan.pc = "analyze"
    /\ scan.todo = << >>
    /\ scan' = [scan EXCEPT !.pc = IF scan.found = << >> THEN "sleep" ELSE "save"]
    /\ UNCHANGED <<signals, Others>>

\* save_signal_to_db for the next found signal: Signal row, cooldown row,
\* signals_sent
SaveSignal ==
    /\ scan.pc = "save"
    /\ LET symbol == Head(scan.found)
       IN  /\ signals' = Append(signals, ScannedSignal(symbol, scan.now))
           /\ scan' = [scan EXCEPT !.pc = "send",
                                   !.found = Tail(scan.found),
                                   !.cooldown[symbol] = scan.now,
                                   !.signals_sent = @ + 1]
    /\ UNCHANGED Others

\* send_signal: the loop goes on with the next signal and sleeps after the
\* last one, or the Telegram call raises and scan_loop drops the rest of the
\* pass
SendSignal ==
    /\ scan.pc = "send"
    /\ \E sent \in BOOLEAN :
          scan' = IF sent /\ scan.found # << >>
                  THEN [scan EXCEPT !.pc = "save"]
                  ELSE [scan EXCEPT !.pc = "sleep", !.found = << >>]
    /\ UNCHANGED <<signals, Others>>

\* an hour passes (during a sleep or an await)
ClockTick ==
    /\ scan.now < MaxTime
    /\ scan' = [scan EXCEPT !.now = @ + 1]
    /\ UNCHANGED <<signals, Others>>

ScanStep ==
    \/ ScanStart
    \/ CheckMarket
    \/ AnalyzeSymbol
    \/ ScanReturn
    \/ SaveSignal
    \/ SendSignal

NextScan == ScanStep \/ ClockTick

\* the scan loop alone: asyncio keeps running it, and time passes
SpecScan ==
    InitScan /\ [][NextScan]_vars /\ WF_vars(ScanStep) /\ WF_vars(ClockTick)

\* a database with up to max_positions open positions and up to
\* max_daily_losses stop-losses counted today, and no cooldown rows
InitGate ==
    /\ signals = << >>
    /\ \E k \in 0..max_positions, lv \in LevelSets :
          /\ positions = [i \in 1..k |-> NewPosition(0, lv, 24950)]
          /\ trades = [i \in 1..k |-> Trade(i, "BUY", 24950, "SIGNAL")]
    /\ \E n \in 0..max_daily_losses : stats = [NoStats EXCEPT !.stop_losses_today = n]
    /\ buy_orders = << >>
    /\ pending_custom = 0
    /\ loop = IdleLoop
    /\ hd = IdleHandler
    /\ scan = IdleScan
    /\ adaptive = InitialAdaptive
    /\ engine = Running
    /\ STRATEGY_CONFIG = DefaultConfig

\* the scan loop over a database with positions and stop-losses
SpecGate == InitGate /\ [][NextScan]_vars

\* the database after a scan pass that met max_positions - 1 open positions,
\* passed the gate and sent a signal for more than one pair: one of them has
\* been bought, the others still wait for a decision
InitCap ==
    /\ signals \in [SignalIds -> {NewSignal(lv, "pending") : lv \in LevelSets}]
    /\ \E lv \in LevelSets :
          /\ positions = [i \in 1..max_positions |-> NewPosition(0, lv, 24950)]
          /\ trades = [i \in 1..max_positions |-> Trade(i, "BUY", 24950, "SIGNAL")]
    /\ stats = [NoStats EXCEPT !.signals_accepted = 1]
    /\ buy_orders = [i \in SignalIds |-> 0]
    /\ pending_custom = 0
    /\ loop = IdleLoop
    /\ hd = IdleHandler
    /\ scan = IdleScan
    /\ adaptive = InitialAdaptive
    /\ engine = Running
    /\ STRATEGY_CONFIG = DefaultConfig

\* the update task over that database
SpecCap == InitCap /\ [][NextHandler]_vars

(***************************************************************************)
(* Adaptive strategy: presets and closing trades                           *)
(***************************************************************************)
NotAdaptive == <<signals, positions, trades, stats, buy_orders, pending_custom,
                 loop, hd, scan, engine, STRATEGY_CONFIG>>

\* the risk_soft / risk_hard buttons and the normal preset: every symbol
ApplyManualPreset ==
    /\ \E preset \in Presets :
          adaptive' = [sym \in SymbolSet |-> ManualPreset(preset)]
    /\ UNCHANGED NotAdaptive

\* a position of one symbol was closed with this P&L
CloseTrade ==
    /\ \E symbol \in SymbolSet, pnl_pct \in PnlValues :
          adaptive' = [adaptive EXCEPT ![symbol] = adaptive_on_trade(@, pnl_pct)]
    /\ UNCHANGED NotAdaptive

NextAdaptive == ApplyManualPreset \/ CloseTrade

SpecAdaptive == Init /\ [][NextAdaptive]_vars

(***************************************************************************)
(* The settings menu                                                       *)
(***************************************************************************)
\* handle_settings_change, one button: the key it writes and its new value
SettingsChange(key, value) ==
    /\ STRATEGY_CONFIG' = [STRATEGY_CONFIG EXCEPT ![key] = value]
    /\ STRATEGY_CONFIG' # STRATEGY_CONFIG
    /\ UNCHANGED <<signals, positions, trades, stats, buy_orders, pending_custom, loop, hd, scan, adaptive, engine>>

\* the RSI and the interval buttons of the settings menu
NextSettings ==
    \* set_rsi_min_dec, set_rsi_min_inc
    \/ SettingsChange("rsi_min", Max(30, STRATEGY_CONFIG.rsi_min - 5))
    \/ SettingsChange("rsi_min", Min(90, STRATEGY_CONFIG.rsi_min + 5))
    \* set_rsi_max_dec, set_rsi_max_inc
    \/ SettingsChange("rsi_max", Max(30, STRATEGY_CONFIG.rsi_max - 5))
    \/ SettingsChange("rsi_max", Min(90, STRATEGY_CONFIG.rsi_max + 5))
    \* set_min_interval_sec_dec, set_min_interval_sec_inc
    \/ SettingsChange("min_interval_sec",
                      Max(0, STRATEGY_CONFIG.min_interval_sec - 10))
    \/ SettingsChange("min_interval_sec",
                      Min(300, STRATEGY_CONFIG.min_interval_sec + 10))

\* the start of the bot with the stop-loss, the volume multiplier and the
\* minimum interval as a saved configuration has them
InitSettings ==
    /\ signals \in [SignalIds -> {NewSignal(lv, "pending") : lv \in LevelSets}]
    /\ positions = << >>
    /\ trades = << >>
    /\ stats = NoStats
    /\ buy_orders = [i \in SignalIds |-> 0]
    /\ pending_custom = 0
    /\ loop = IdleLoop
    /\ hd = IdleHandler
    /\ scan = IdleScan
    /\ adaptive = InitialAdaptive
    /\ engine = Running
    /\ STRATEGY_CONFIG \in SavedConfigs

SpecSettings == InitSettings /\ [][NextSettings]_vars

(***************************************************************************)
(* Properties                                                              *)
(***************************************************************************)
RECURSIVE SumAmount(_, _, _)
\* the sum of the amounts of the side-trades of position id among the
\* first n trades
SumAmount(id, side, n) ==
    IF n = 0 THEN 0
    ELSE SumAmount(id, side, n - 1)
         + (IF trades[n].position_id = id /\ trades[n].side = side
            THEN trades[n].amount ELSE 0)

\* C1: for every position, current_amount never increases and never becomes
\* negative, whatever the interleaving of position checks, manual closes and
\* reconciliation.
C1_AmountNeverGrowsNorNegative ==
    [][\A id \in DOMAIN positions :
          /\ positions'[id].current_amount <= positions[id].current_amount
          /\ positions'[id].current_amount >= 0]_vars

\* C2: for every position, the sell trades never add up to more than the buy
\* trades.
C2_NoOverSell ==
    \A id \in DOMAIN positions :
        SumAmount(id, "SELL", Len(trades)) <= SumAmount(id, "BUY", Len(trades))

PositionsOf(sid) == {id \in DOMAIN positions : positions[id].signal_id = sid}

\* C3: each signal gives rise to at most one buy order and at most one
\* position, however often its accept decision is triggered; a signal read
\* in a non-pending status is not executed again.
C3_OneBuyPerSignal ==
    \A sid \in SignalIds :
        /\ buy_orders[sid] <= 1
        /\ Cardinality(PositionsOf(sid)) <= 1
        /\ Cardinality(PositionsOf(sid)) <= buy_orders[sid]

\* the accept button pressed again on a signal that was already executed
C3_Witness ==
    /\ hd.pc = "done"
    /\ hd.kind = "buy"
    /\ hd.answer = "already_processed"
    /\ signals[hd.id].status = "executed"
    /\ buy_orders[hd.id] = 1
    /\ Cardinality(PositionsOf(hd.id)) = 1

\* a take-profit condition (TP1, TP2 or the trailing stop) holds for the
\* snapshot at this price
TakeProfitCond(snap, price) == \E k \in 2..4 : StageCond(k, snap, price)

\* C4: in a position check whose price satisfies both the stop-loss condition
\* and a take-profit condition, every sell issued and the action reported
\* have reason SL.
C4_StopLossPrecedence ==
    ( /\ loop.pc \in {"sell", "return"}
      /\ loop.price # 0
      /\ loop.price <= loop.pos.stop_loss
      /\ TakeProfitCond(loop.pos, loop.price) )
    => /\ \A i \in DOMAIN loop.issued : loop.issued[i] = "SL"
       /\ loop.result \in {"None", "SL"}

\* this step appends one Trade row that is t up to its P&L
Appended(t) ==
    /\ Len(trades') = Len(trades) + 1
    /\ SubSeq(trades', 1, Len(trades)) = trades
    /\ [trades'[Len(trades')] EXCEPT !.pnl_usdt = 0] = t

\* the position the loop is checking, as the database has it
Checked == positions[loop.pos.id]

\* a position check is reading its ticker and gets a price
PriceStep == loop.pc = "ticker" /\ loop'.price # 0

\* the sell order of the check is accepted
FillStep(reason) ==
    loop.pc = "sell" /\ Stages[loop.stage] = reason /\ loop'.result = reason

\* C5: for an open position no closing action is taken while
\* stop_loss < P < TP1; at a tick with P <= stop_loss one SL sell for the
\* whole remaining amount is issued, and once it is accepted the position is
\* closed_sl with nothing left.
C5_StopLossClose ==
    [][ /\ ( PriceStep /\ loop.pos.status = "open"
             /\ loop.pos.stop_loss < loop'.price /\ loop'.price < loop.pos.tp1 )
           => /\ loop'.pc = "return" /\ loop'.result = "None"
              /\ loop'.issued = << >>
              /\ trades' = trades
              /\ positions'[loop.pos.id].status = "open"
              /\ positions'[loop.pos.id].current_amount = Checked.current_amount
        /\ ( PriceStep /\ loop.pos.status = "open"
             /\ loop'.price <= loop.pos.stop_loss )
           => /\ loop'.pc = "sell" /\ loop'.issued = <<"SL">>
              /\ loop'.sell_amount = Checked.current_amount
        /\ ( FillStep("SL") /\ loop.pos.status = "open" )
           => /\ positions'[loop.pos.id].status = "closed_sl"
              /\ positions'[loop.pos.id].current_amount = 0
              /\ Appended(Trade(loop.pos.id, "SELL", Checked.current_amount, "SL"))
              /\ loop'.result = "SL" ]_vars

\* ticks at prices between the levels did nothing, then a tick at or below
\* the stop-loss closed the whole position
C5_Witness ==
    /\ loop.pc = "return"
    /\ loop.result = "SL"
    /\ loop.pos.status = "open"
    /\ loop.price <= loop.pos.stop_loss
    /\ loop.pos.max_price > loop.pos.stop_loss
    /\ Checked.status = "closed_sl"
    /\ Checked.current_amount = 0

\* x is pct percent of orig, up to tol hundredths of a token
About(x, pct, orig, tol) ==
    /\ x * 100 - pct * orig <= 100 * tol
    /\ pct * orig - x * 100 <= 100 * tol

\* C6: with tp1_close = tp2_close = 30%, a tick with P >= TP1 on an open
\* position leaves 70% of the original amount and status partial_tp1, a later
\* tick with P >= TP2 leaves about 40% and status partial_tp2, and a tick
\* makes at most one partial close per position.
C6_TakeProfitLadder ==
    /\ [][ /\ ( PriceStep /\ loop.pos.status = "open"
                /\ loop'.price >= loop.pos.tp1 /\ loop'.price > loop.pos.stop_loss )
              => /\ loop'.pc = "sell" /\ loop'.issued = <<"TP1">>
           /\ ( FillStep("TP1") /\ loop.pos.status = "open" )
              => /\ positions'[loop.pos.id].status = "partial_tp1"
                 /\ About(positions'[loop.pos.id].current_amount, 70,
                          Checked.entry_amount, 1)
           /\ ( PriceStep /\ loop.pos.status = "partial_tp1"
                /\ loop'.price >= loop.pos.tp2 /\ loop'.price > loop.pos.stop_loss )
              => /\ loop'.pc = "sell" /\ loop'.issued = <<"TP2">>
           /\ ( FillStep("TP2") /\ loop.pos.status = "partial_tp1" )
              => /\ positions'[loop.pos.id].status = "partial_tp2"
                 /\ About(positions'[loop.pos.id].current_amount, 40,
                          Checked.entry_amount, 2) ]_vars
    /\ [](\A i, j \in DOMAIN loop.actions :
             loop.actions[i].position_id = loop.actions[j].position_id => i = j)
    /\ [](\A i, j \in DOMAIN loop.issued :
             (loop.issued[i] \in {"TP1", "TP2"} /\ loop.issued[j] \in {"TP1", "TP2"})
             => i = j)

\* the TP2 partial close of a position that went through TP1
C6_Witness ==
    /\ loop.pc = "return"
    /\ loop.result = "TP2"
    /\ loop.pos.status = "partial_tp1"
    /\ Checked.status = "partial_tp2"
    /\ About(loop.pos.current_amount, 70, Checked.entry_amount, 1)
    /\ About(Checked.current_amount, 40, Checked.entry_amount, 2)

\* C7: right after the tick whose TP2 partial close made a position
\* partial_tp2, its trailing stop is set, equals max_price * 0.97 and lies
\* below the price of that tick.
C7_TrailingArmedByTP2 ==
    ( loop.pc = "return" /\ loop.result = "TP2"
      /\ Checked.status = "partial_tp2" )
    => /\ Checked.trailing_stop # NoValue
       /\ Checked.trailing_stop = NewTrailing(Checked.max_price)
       /\ Checked.trailing_stop < loop.price

\* C8: once armed, the trailing stop never decreases; every tick that reads
\* a price sets it to max(trailing stop, max_price * 0.97) for the updated
\* max_price.
C8_TrailingMonotone ==
    [][ \A id \in DOMAIN positions :
          /\ positions[id].trailing_stop # NoValue
             => positions'[id].trailing_stop >= positions[id].trailing_stop
          /\ ( PriceStep /\ loop.pos.id = id
               /\ positions[id].status = "partial_tp2"
               /\ positions[id].trailing_stop # NoValue )
             => /\ positions'[id].max_price =
                       Max(positions[id].max_price, loop'.price)
                /\ positions'[id].trailing_stop =
                       Max(positions[id].trailing_stop,
                           NewTrailing(positions'[id].max_price)) ]_vars

\* a tick with a new maximum price raised an armed trailing stop
C8_Witness ==
    /\ loop.pc = "return"
    /\ loop.price # 0
    /\ loop.pos.trailing_stop # NoValue
    /\ loop.price = Checked.max_price
    /\ Checked.trailing_stop > loop.pos.trailing_stop
    /\ Checked.trailing_stop = NewTrailing(Checked.max_price)

\* C9: in every tick in which the price of a partial_tp2 position is at or
\* below its trailing stop as recalculated in that tick, and above the
\* stop-loss, a TRAILING sell for the whole remainder is issued, and its fill
\* makes the position closed_tp.
C9_TrailingClose ==
    [][ /\ ( PriceStep /\ loop.pos.status = "partial_tp2"
             /\ loop'.price > loop.pos.stop_loss
             /\ positions'[loop.pos.id].trailing_stop # NoValue
             /\ loop'.price <= positions'[loop.pos.id].trailing_stop )
           => /\ loop'.pc = "sell" /\ loop'.issued = <<"TRAILING">>
              /\ loop'.sell_amount = Checked.current_amount
        /\ FillStep("TRAILING")
           => /\ positions'[loop.pos.id].status = "closed_tp"
              /\ positions'[loop.pos.id].current_amount = 0 ]_vars

\* C10: reconciliation comes first in every position check: a balance below
\* 5% of the tracked amount closes the position as closed_manual with one
\* MANUAL_EXTERNAL sell trade for the tracked amount, and that check reads no
\* price for SL/TP and issues no sell.
C10_ReconciliationFirst ==
    /\ []( ( loop.pc \in {"recon", "ticker"}
             /\ loop.balance * 100 < loop.pos.current_amount * dust_pct )
           => loop.pc = "recon" )
    /\ []( ( loop.price # 0 \/ loop.issued # << >> )
           => /\ loop.balance * 100 >= loop.pos.current_amount * dust_pct
              /\ loop.result # "SYNC_CLOSED" )
    /\ [][ ( loop.pc = "recon" /\ loop' # loop )
           => /\ positions'[loop.pos.id].status = "closed_manual"
              /\ positions'[loop.pos.id].close_reason = "MANUAL_EXTERNAL"
              /\ loop.pos.current_amount = Checked.current_amount
              /\ Appended(Trade(loop.pos.id, "SELL", Checked.current_amount,
                                 "MANUAL_EXTERNAL"))
              /\ loop'.pc = "return" /\ loop'.result = "SYNC_CLOSED"
              /\ loop'.price = 0 /\ loop'.issued = << >> ]_vars

\* the exchange reports a small rest of a tracked position, which is closed
\* for its whole tracked amount
C10_Witness ==
    /\ loop.pc = "return"
    /\ loop.result = "SYNC_CLOSED"
    /\ loop.balance > 0
    /\ loop.balance * 100 < loop.pos.current_amount * dust_pct
    /\ Checked.status = "closed_manual"
    /\ [trades[Len(trades)] EXCEPT !.pnl_usdt = 0]
           = Trade(loop.pos.id, "SELL", loop.pos.current_amount,
                   "MANUAL_EXTERNAL")

\* the status changes a signal may go through
SignalMoves ==
    { <<"pending", "accepted">>, <<"pending", "rejected">>,
      <<"pending", "expired">>, <<"accepted", "executed">> }

\* C11: a signal's status changes only pending -> accepted, pending ->
\* rejected, pending -> expired and accepted -> executed; rejected, expired
\* and executed are never left and no signal row disappears.
C11_SignalLifecycle ==
    [][ /\ DOMAIN signals' = DOMAIN signals
        /\ \A sid \in DOMAIN signals :
              \/ signals'[sid].status = signals[sid].status
              \/ <<signals[sid].status, signals'[sid].status>> \in SignalMoves ]_vars

\* a signal went pending -> accepted -> executed and was pressed again
\* afterwards, by the skip button
C11_Witness ==
    /\ hd.pc = "done"
    /\ hd.kind = "skip"
    /\ hd.id \in SignalIds
    /\ signals[hd.id].status = "executed"
    /\ stats.signals_accepted = 1
    /\ stats.signals_rejected = 0

\* the database rows a decision may touch
Decided == <<signals, positions, trades, stats, buy_orders>>

\* a button press or amount message for signal id starts or continues
DecisionStep(id) ==
    /\ hd.pc \in {"idle", "custom_reply"}
    /\ hd' # hd
    /\ hd'.kind \in {"buy", "skip", "custom"}
    /\ hd'.id = id

\* C12: an accept or reject decision on a signal that is already accepted,
\* rejected, expired or executed, or that has no row, changes no signal,
\* position, trade or daily counter and places no order; the handler ends at
\* once, with the same answer every time.
C12_DecideIdempotent ==
    [][ \A id \in CallbackIds :
          ( DecisionStep(id)
            /\ (id \in SignalIds => signals[id].status # "pending") )
          => /\ Decided' = Decided
             /\ hd'.kind = "buy"
                => /\ hd'.pc = "done"
                   /\ hd'.answer = IF id \in SignalIds THEN "already_processed"
                                   ELSE "not_found"
             /\ hd'.kind = "skip"
                => hd'.pc = "done" /\ hd'.answer = "ignored"
             /\ hd.pc = "custom_reply"
                => hd'.pc = "done" /\ hd'.answer = "already_processed" ]_vars

\* the accept button pressed on a signal that stayed accepted after a failed
\* buy
C12_Witness ==
    /\ hd.pc = "done"
    /\ hd.kind = "buy"
    /\ hd.answer = "already_processed"
    /\ signals[hd.id].status = "accepted"
    /\ buy_orders[hd.id] = 1
    /\ PositionsOf(hd.id) = {}

\* the price moved by more than the tolerance, up or down
Drifted(current_price, signal_price) ==
    \/ (current_price - signal_price) * 100 > drift_pct * signal_price
    \/ (signal_price - current_price) * 100 > drift_pct * signal_price

\* C13: when the price read at decision time is more than 1% away from the
\* signal's detection price, above or below, the accept decision makes the
\* signal expired, never accepted, and no buy order is placed for it.
C13_DriftGuard ==
    ( hd.kind = "buy" /\ hd.price # 0
      /\ Drifted(hd.price, signals[hd.id].price) )
    => /\ signals[hd.id].status = "expired"
       /\ hd.pc = "done"
       /\ buy_orders[hd.id] = 0

\* execute_buy_from_signal has returned for the signal of the handler
BuyReturned == hd.pc = "done" /\ hd.kind = "buy" /\ hd.answer \in {"bought", "buy_failed"}

\* C16: the position and buy trade are created and the signal marked
\* executed only when the placed buy order has filled something; an order
\* that was placed and has filled nothing creates no position and leaves the
\* signal accepted.
C16_OpenOnlyOnFill ==
    ( BuyReturned /\ buy_orders[hd.id] = 1 /\ hd.filled <= 0 )
    => /\ PositionsOf(hd.id) = {}
       /\ signals[hd.id].status = "accepted"

\* execute_buy_from_signal returns None
BuyFails ==
    /\ hd.pc \in {"buy_answer", "buy_balance", "buy_order"}
    /\ hd'.pc = "done"
    /\ hd'.answer = "buy_failed"

\* C17: a failed open changes nothing: with free USDT below the floor of 10,
\* a failed balance query or a rejected order, no position and no trade is
\* created, the signal stays accepted, and no order is placed after the
\* failure.
C17_FailedOpenChangesNothing ==
    /\ [][ BuyFails
           => /\ <<signals, positions, trades, stats>>' = <<signals, positions, trades, stats>>
              /\ signals'[hd.id].status = "accepted"
              /\ PositionsOf(hd.id)' = {}
              /\ hd.pc = "buy_balance"
                 => /\ hd'.usdt_free < min_usdt
                    /\ buy_orders' = buy_orders
                    /\ buy_orders[hd.id] = 0 ]_vars
    /\ [][ ( hd.pc = "buy_balance" /\ hd'.pc = "buy_order" )
           => hd'.usdt_free >= min_usdt ]_vars
    /\ [][ \A sid \in SignalIds :
              ( signals[sid].status = "accepted" /\ hd.pc \in {"idle", "done"} )
              => buy_orders'[sid] = buy_orders[sid] ]_vars

\* the order of an accepted signal was rejected by the exchange
C17_Witness ==
    /\ hd.pc = "done"
    /\ hd.kind = "buy"
    /\ hd.answer = "buy_failed"
    /\ hd.usdt_free >= min_usdt
    /\ buy_orders[hd.id] = 1
    /\ signals[hd.id].status = "accepted"
    /\ positions = << >>
    /\ trades = << >>

\* the sizing of execute_buy_from_signal has sent its order
SizedStep == hd.pc = "buy_balance" /\ hd'.pc = "buy_order"

\* C18: for every order placed by the executor, with the stop-loss below the
\* entry price, (entry - stop_loss) / entry * notional is at most
\* max_risk_per_trade (1%) of the free USDT balance, for every balance,
\* stop-loss and override.
C18_RiskBound ==
    [][ ( SizedStep /\ signals[hd.id].stop_loss < signals[hd.id].entry_price )
        => (signals[hd.id].entry_price - signals[hd.id].stop_loss) * hd'.size * 100
              <= max_risk_per_trade * hd'.usdt_free * signals[hd.id].entry_price ]_vars

\* an order whose size the risk test cut below the requested 25 USDT
C18_Witness ==
    /\ hd.pc = "buy_order"
    /\ hd.usdt_free = 10000
    /\ signals[hd.id].stop_loss = 9000
    /\ hd.size > 0
    /\ hd.size < 2500
    /\ hd.size = PositionSizeUsdt(10000, 2500, 10020, 9000)

\* C19: the risk test only ever reduces the order: the notional is at most
\* the override when one is given, at most position_size_pct of the free
\* balance otherwise, and never more than the free balance.
C19_CapOnlyReduces ==
    [][ SizedStep
        => /\ hd'.size <= hd'.usdt_free
           /\ hd.amount > 0 => hd'.size <= hd.amount
           /\ hd.amount = 0
              => hd'.size * 100 <= hd'.usdt_free * position_size_pct ]_vars

\* execute_sell has committed a sell: its trade is the new last trade
Sold ==
    /\ Len(trades') = Len(trades) + 1
    /\ trades'[Len(trades')].side = "SELL"
    /\ trades'[Len(trades')].reason # "MANUAL_EXTERNAL"

\* C20: a sell finalises the position into a terminal status only when its
\* current_amount has reached (near) zero, and then TP1/TP2/TP3/TRAILING
\* give closed_tp, SL gives closed_sl and any other reason closed_manual; a
\* sell that leaves a positive remainder never yields a terminal status.
C20_CloseFinalises ==
    [][ Sold
        => LET t == trades'[Len(trades')]
               before == positions[t.position_id]
               after == positions'[t.position_id]
           IN  /\ after.current_amount = before.current_amount - t.amount
               /\ after.current_amount * 10000 <= AmountScale
                  => /\ t.reason \in {"TP1", "TP2", "TP3", "TRAILING"}
                        => after.status = "closed_tp"
                     /\ t.reason = "SL" => after.status = "closed_sl"
                     /\ t.reason \notin {"TP1", "TP2", "TP3", "TRAILING", "SL"}
                        => after.status = "closed_manual"
               /\ ( after.current_amount * 10000 > AmountScale
                    /\ before.status \in OpenStatuses )
                  => after.status \in OpenStatuses ]_vars

\* a trailing sell took the rest of a position and closed it as closed_tp
C20_Witness ==
    /\ trades # << >>
    /\ trades[Len(trades)].reason = "TRAILING"
    /\ positions[trades[Len(trades)].position_id].status = "closed_tp"
    /\ positions[trades[Len(trades)].position_id].current_amount = 0
    /\ \E i \in DOMAIN trades :
          /\ trades[i].reason = "TP1"
          /\ trades[i].position_id = trades[Len(trades)].position_id

\* the rows the scanner can have written by MaxTime
RowIds == 1..(Len(Symbols) * (MaxTime + 1))

\* C14: every pending signal eventually leaves pending: one that gets no
\* decision is moved to expired by the engine once its expiry window has
\* passed, so no signal stays pending forever.
C14_PendingResolves ==
    \A i \in RowIds :
        (i \in DOMAIN signals /\ signals[i].status = "pending")
            ~> (i \in DOMAIN signals /\ signals[i].status # "pending")

\* C15: while less than signal_cooldown_hours have passed since a signal of
\* a pair was recorded, the scan finds no signal for that pair, so any two
\* signals of one pair lie at least signal_cooldown_hours apart.
C15_Cooldown ==
    /\ [](\A i, j \in DOMAIN signals :
             (i < j /\ signals[i].symbol = signals[j].symbol)
             => signals[j].created_at - signals[i].created_at
                   >= signal_cooldown_hours)
    /\ [](\A sym \in SymbolSet :
             scan.cooldown[sym] # NoValue
             => \E i \in DOMAIN signals :
                   /\ signals[i].symbol = sym
                   /\ signals[i].created_at = scan.cooldown[sym]
                   /\ \A j \in DOMAIN signals :
                         signals[j].symbol = sym
                         => signals[j].created_at <= signals[i].created_at)
    /\ [][ ( scan.pc = "analyze" /\ scan.todo # << >>
             /\ scan.cooldown[Head(scan.todo)] # NoValue
             /\ scan'.now - scan.cooldown[Head(scan.todo)] < signal_cooldown_hours )
           => scan'.found = scan.found /\ scan'.pc = "analyze" ]_vars

\* a second signal of a pair, recorded after the cooldown of the first
C15_Witness ==
    \E i, j \in DOMAIN signals :
        /\ i < j
        /\ signals[i].symbol = signals[j].symbol
        /\ signals[j].created_at - signals[i].created_at = signal_cooldown_hours
        /\ scan.cooldown[signals[j].symbol] = signals[j].created_at

\* C21: when a closing order fills less than the amount asked for, the sell
\* trade's amount and the decrement of current_amount equal the amount that
\* filled, not the amount asked for.
C21_PartialFillRecorded ==
    /\ [][ ( loop.pc = "sell" /\ loop'.pc = "return" /\ loop'.result # "None"
             /\ loop'.filled < loop.sell_amount )
           => /\ trades'[Len(trades')].amount = loop'.filled
              /\ Checked.current_amount - positions'[loop.pos.id].current_amount
                     = loop'.filled ]_vars
    /\ [][ ( hd.pc = "close_sell" /\ hd'.answer = "closed"
             /\ hd'.filled < hd.sell_amount )
           => /\ trades'[Len(trades')].amount = hd'.filled
              /\ positions[hd.id].current_amount - positions'[hd.id].current_amount
                     = hd'.filled ]_vars

\* C22: after any sequence of closing trades and preset selections every
\* symbol's risk level lies within [MIN_RISK_LEVEL, MAX_RISK_LEVEL].
C22_RiskLevelBounded ==
    \A sym \in SymbolSet :
        /\ adaptive[sym].risk_level >= MIN_RISK_LEVEL
        /\ adaptive[sym].risk_level <= MAX_RISK_LEVEL

\* a symbol in automatic mode at the maximum after five losing trades in a
\* row, where one more loss would step over it
C22_Witness ==
    \E sym \in SymbolSet :
        /\ adaptive[sym].manual_mode = "auto"
        /\ adaptive[sym].risk_level = MAX_RISK_LEVEL
        /\ adaptive[sym].last_pnls = <<-100, -100, -100, -100, -100>>

\* the gates of the scan as the pass finds them
GateBtc == scan'.btc_change < btc_drop_threshold
GateNight == Hour(scan.now) \in night_start..(night_end - 1)
GateStops == stats.stop_losses_today >= max_daily_losses
GatePositions == OpenCount >= max_positions

\* the scan pass takes its decision on the market conditions
GateStep == scan.pc = "conditions" /\ scan'.pc # "conditions"

\* C23: a scan pass returns an empty list without analysing any pair
\* whenever a gate holds (BTC fell by more than the threshold in the last
\* hour, night hours, the stop-loss count of the day at its cap, the number
\* of open positions at its cap); the result says "cannot trade" exactly when
\* it reports a reason, and it reports one reason per gate that holds.
C23_GlobalGate ==
    /\ [][ GateStep =>
             /\ (GateBtc \/ GateNight \/ GateStops \/ GatePositions)
                => /\ scan'.pc = "sleep"
                   /\ scan'.todo = << >> /\ scan'.found = << >>
                   /\ scan'.analysed = << >>
                   /\ signals' = signals
             /\ ~scan'.market.can_trade <=> scan'.market.reasons # << >>
             /\ GateBtc <=> \E i \in DOMAIN scan'.market.reasons :
                                scan'.market.reasons[i] = "btc"
             /\ GateNight <=> \E i \in DOMAIN scan'.market.reasons :
                                  scan'.market.reasons[i] = "night"
             /\ GateStops <=> \E i \in DOMAIN scan'.market.reasons :
                                  scan'.market.reasons[i] = "stops"
             /\ GatePositions <=> \E i \in DOMAIN scan'.market.reasons :
                                      scan'.market.reasons[i] = "positions"
             /\ \A i, j \in DOMAIN scan'.market.reasons :
                   scan'.market.reasons[i] = scan'.market.reasons[j] => i = j ]_vars
    /\ [](scan.pc \notin {"sleep", "conditions"} => scan.market.can_trade)

\* a pass that was called off with all four reasons and analysed nothing
C23_Witness ==
    /\ scan.pc = "sleep"
    /\ scan.market.reasons = <<"btc", "night", "stops", "positions">>
    /\ ~scan.market.can_trade
    /\ scan.analysed = << >>
    /\ OpenCount = max_positions

\* C24: when the engine shuts down, a position check in flight runs to its
\* end before the exchange connection is closed, and no order placement in
\* flight is cancelled: every order the exchange took has its trade recorded
\* before the engine stops.
C24_ShutdownFinishesTick ==
    engine.pc = "closed"
    => /\ engine.cut \in {"none", "idle", "report"}
       /\ ~engine.orphan

\* a closing order for more than the exchange holds is waiting for its
\* rejection
Insufficient == loop.pc = "sell" /\ loop.balance < loop.sell_amount

\* C25: a close attempt that fails with insufficient balance is not retried
\* for ever: when the closing orders of a position keep being rejected,
\* eventually the position is finalised or no closing order for more than
\* the balance is issued any more.
C25_NoEndlessRetry ==
    \/ <>(positions[1].status \in ClosedStatuses)
    \/ <>[](~Insufficient)

\* the update task is in an open attempt for signal sid: from the ticker
\* request of handle_buy_signal to the order of execute_buy_from_signal
InAttempt(h, sid) ==
    h.id = sid /\ h.pc \in {"buy_ticker", "buy_answer", "buy_balance", "buy_order"}

\* C26: no signal gets stuck after an error: whenever a signal is accepted
\* and its open attempt has failed (the update task is free again), some
\* operation is enabled that takes it out of accepted or starts another
\* open attempt for it.
C26_NoStuckSignal ==
    \A sid \in SignalIds :
        (signals[sid].status = "accepted" /\ hd.pc = "idle")
        => ENABLED ( NextHandler
                     /\ (signals'[sid].status # "accepted" \/ InAttempt(hd', sid)) )

\* the four stages of the analysis of a pair
FourStages == {"accumulation", "breakout", "filter", "fomo"}

\* C27: a signal is found for a pair only if accumulation, breakout, the
\* false-pump filter and the FOMO guard (price not more than
\* max_from_daily_low_pct above the daily low) all passed on that pass; when
\* the FOMO guard cannot be evaluated, no signal is found.
C27_AllFourStages ==
    [][ scan'.found # scan.found /\ scan'.found # << >>
        => /\ scan.pc = "daily"
           /\ scan'.found = Append(scan.found, Head(scan.todo))
           /\ FourStages \subseteq scan'.passed ]_vars

\* the gateway calls made so far for the pair under analysis
HasCall(c) == \E i \in DOMAIN scan.calls : scan.calls[i] = c

\* every call b was made after a call a
Before(a, b) ==
    \A j \in DOMAIN scan.calls :
        scan.calls[j] = b => \E i \in 1..(j - 1) : scan.calls[i] = a

\* C28: for each pair the cooldown check comes before the candle request,
\* and the ticker and order-book requests are made only after accumulation
\* and breakout have both passed on this pass; a pair in cooldown or failing
\* a cheaper check causes no order-book request.
C28_StageOrdering ==
    /\ Before("cooldown", "ohlcv")
    /\ HasCall("ohlcv") => "cooldown" \in scan.passed
    /\ (HasCall("ticker") \/ HasCall("orderbook"))
       => /\ {"cooldown", "accumulation", "breakout"} \subseteq scan.passed
          /\ Before("ohlcv", "ticker")
          /\ Before("ohlcv", "orderbook")
    /\ Before("ticker", "orderbook")

\* a pair with accumulation but no breakout was dropped after its candles:
\* neither ticker nor order book was asked for
C28_Witness ==
    /\ scan.pc = "analyze"
    /\ scan.analysed # << >>
    /\ scan.calls = <<"cooldown", "ohlcv">>
    /\ scan.passed = {"cooldown", "accumulation"}

\* C30: when the balance request of a position check fails, the position is
\* skipped for this cycle: its status, its current_amount and the trades are
\* unchanged and it is not taken as closed outside the engine.
C30_BalanceFailureSkips ==
    /\ [][ (loop.pc = "balance" /\ loop'.pc # "balance" /\ ~loop'.balance_ok)
           => /\ loop'.pc = "return"
              /\ loop'.result = "None" ]_vars
    /\ [][ ~loop.balance_ok
           => /\ trades' = trades
              /\ positions'[loop.pos.id].status = Checked.status
              /\ positions'[loop.pos.id].current_amount = Checked.current_amount ]_vars

\* C29: within one scan pass or one position check pass, a gateway error or
\* an exception while one pair or position is processed gives no signal or no
\* action for that one, and every other pair or position of the pass is
\* still processed.
C29_FailureIsolation ==
    /\ [][ (scan.pc \in {"analyze", "candles", "ticker", "orderbook", "daily"}
            /\ scan.todo # << >> /\ scan'.pc = "analyze" /\ scan'.failed
            /\ scan'.todo # scan.todo)
           => /\ scan'.found = scan.found
              /\ scan'.todo = Tail(scan.todo) ]_vars
    /\ [](scan.pc = "analyze" /\ scan.todo = << >> => scan.analysed = Symbols)
    /\ [][ (loop.pc = "ticker" /\ loop'.pc = "return" /\ loop'.price = 0)
           => loop'.result = "None" /\ loop'.actions = loop.actions ]_vars
    /\ [](loop.pc = "return" /\ ~loop.balance_ok
             => loop.result = "None" /\ positions[loop.pos.id].status = loop.pos.status)
    /\ [][ loop.pc = "return" /\ loop' # loop
           => loop' = LoopAdvance(loop) ]_vars
    /\ [](loop.pc = "report" => loop.queue = << >>)

\* C31: every finalisation of a position as ClosedBySL adds one to the
\* day's stop-loss count, and while that count is at max_daily_losses or
\* above the market gate of the scan is closed, so the pass returns no signal.
C31_DailyStopCap ==
    /\ [][ ( \E id \in PosIds :
                /\ positions[id].status \notin ClosedStatuses
                /\ positions'[id].status = "closed_sl" )
           => stats'.stop_losses_today = stats.stop_losses_today + 1 ]_vars
    /\ []( stats.stop_losses_today >= max_daily_losses
           => \A btc_change \in BtcChanges :
                  ~check_market_conditions(btc_change, scan.now).can_trade )

\* the conditions of adaptive_on_trade on the P&L of the trade and on the
\* average of the last five, the trade included
LossCondition(pnls) ==
    \/ pnls[Len(pnls)] <= -30
    \/ Len(pnls) >= last_n /\ SumSeq(pnls) < -20 * last_n

ProfitCondition(pnls) ==
    \/ pnls[Len(pnls)] >= 50
    \/ Len(pnls) >= last_n /\ SumSeq(pnls) > 50 * last_n

\* C32: in automatic mode a closing trade moves the risk level of its symbol
\* by at most one step: up by exactly one, capped at MAX_RISK_LEVEL, when the
\* trade's P&L is at or below the loss threshold or the five-trade average is
\* below its threshold; down by exactly one, capped at MIN_RISK_LEVEL, on the
\* profit condition; unchanged otherwise.
C32_OneStepPerTrade ==
    [][ \A sym \in SymbolSet :
          ( /\ adaptive[sym].manual_mode = "auto"
            /\ adaptive'[sym].manual_mode = "auto"
            /\ adaptive'[sym] # adaptive[sym] )
          => LET rl == adaptive[sym].risk_level
                 after == adaptive'[sym].risk_level
                 pnls == adaptive'[sym].last_pnls
             IN  /\ after - rl \in {-1, 0, 1}
                 /\ ( LossCondition(pnls) /\ ~ProfitCondition(pnls) )
                    => after = Min(rl + 1, MAX_RISK_LEVEL)
                 /\ ( ProfitCondition(pnls) /\ ~LossCondition(pnls) )
                    => after = Max(rl - 1, MIN_RISK_LEVEL)
                 /\ ( ~LossCondition(pnls) /\ ~ProfitCondition(pnls) )
                    => after = rl ]_vars

\* C33: under a manual preset a closing trade only adds one to
\* trades_in_manual_mode and leaves the risk level alone; the preset ends
\* exactly when the count reaches MIN_TRADES_BEFORE_AUTO; from then on the
\* symbol stays in automatic mode, where closing trades move the risk level,
\* until a preset is selected again.
C33_ManualOverride ==
    /\ [](\A sym \in SymbolSet :
             adaptive[sym].manual_mode # "auto"
             => adaptive[sym].trades_in_manual_mode < MIN_TRADES_BEFORE_AUTO)
    /\ [][ \A sym \in SymbolSet :
             LET st == adaptive[sym]
                 after == adaptive'[sym]
                 \* a closing trade is recorded (a preset empties last_pnls)
                 TradeStep == after # st /\ after.last_pnls # << >>
             IN  /\ ( st.manual_mode # "auto" /\ TradeStep )
                    => /\ after.trades_in_manual_mode = st.trades_in_manual_mode + 1
                       /\ after.risk_level = st.risk_level
                       /\ after.manual_mode =
                              IF after.trades_in_manual_mode = MIN_TRADES_BEFORE_AUTO
                              THEN "auto" ELSE st.manual_mode
                 /\ ( st.manual_mode = "auto" /\ TradeStep )
                    => /\ after.manual_mode = "auto"
                       /\ after.trades_in_manual_mode = st.trades_in_manual_mode
                       /\ ( LossCondition(after.last_pnls)
                            /\ ~ProfitCondition(after.last_pnls)
                            /\ st.risk_level < MAX_RISK_LEVEL )
                          => after.risk_level > st.risk_level
                       /\ ( ProfitCondition(after.last_pnls)
                            /\ ~LossCondition(after.last_pnls)
                            /\ st.risk_level > MIN_RISK_LEVEL )
                          => after.risk_level < st.risk_level
                 /\ ( st.manual_mode = "auto" /\ after.manual_mode # "auto" )
                    => after = ManualPreset(after.manual_mode) ]_vars

\* a symbol whose preset ended with its fifth trade and whose risk level has
\* since been moved by closing trades
C33_Witness ==
    \E sym \in SymbolSet :
        /\ adaptive[sym].manual_mode = "auto"
        /\ adaptive[sym].trades_in_manual_mode = MIN_TRADES_BEFORE_AUTO
        /\ adaptive[sym].risk_level = -2

\* C34: for the base configuration the settings have led to and any two risk
\* levels a < b in range, the configuration at b has a stop-loss distance no
\* larger, a minimum interval between trades no smaller, a volume multiplier
\* no smaller, and an RSI band inside the band at a.
C34_MonotoneInRiskLevel ==
    \A a, b \in MIN_RISK_LEVEL..MAX_RISK_LEVEL :
        a < b
        => LET ca == get_symbol_config(STRATEGY_CONFIG, a)
               cb == get_symbol_config(STRATEGY_CONFIG, b)
           IN  /\ cb.sl_pct <= ca.sl_pct
               /\ cb.min_interval_sec >= ca.min_interval_sec
               /\ cb.volume_mult >= ca.volume_mult
               /\ cb.rsi_min >= ca.rsi_min
               /\ cb.rsi_max <= ca.rsi_max

\* how far a status is along Open, PartialTP1, PartialTP2, closed
StatusRank(status) ==
    CASE status = "open" -> 0
      [] status = "partial_tp1" -> 1
      [] status = "partial_tp2" -> 2
      [] OTHER -> 3

\* the sell Trades of a position with this reason
SellsOf(id, reason) ==
    { n \in DOMAIN trades : /\ trades[n].position_id = id
                            /\ trades[n].side = "SELL"
                            /\ trades[n].reason = reason }

\* C35: no step moves the status of a position back along Open, PartialTP1,
\* PartialTP2, closed, and a position never has more than one TP1 sell nor
\* more than one TP2 sell.
C35_StatusForwardOnly ==
    /\ [][ \A id \in PosIds :
             StatusRank(positions'[id].status) >= StatusRank(positions[id].status)
         ]_vars
    /\ []( \A id \in PosIds :
             /\ Cardinality(SellsOf(id, "TP1")) <= 1
             /\ Cardinality(SellsOf(id, "TP2")) <= 1 )

\* a position that went through both partial closes and was then closed by
\* the button
C35_Witness ==
    \E id \in PosIds :
        /\ positions[id].status = "closed_manual"
        /\ SellsOf(id, "TP1") # {}
        /\ SellsOf(id, "TP2") # {}

\* C36: once a position is ClosedByTP, ClosedBySL or ClosedManually, no step
\* changes its status, close reason, amount or total P&L, and no step appends
\* a Trade of it.
C36_TerminalImmutable ==
    [][ \A id \in PosIds :
          positions[id].status \in ClosedStatuses
          => /\ positions'[id].status = positions[id].status
             /\ positions'[id].close_reason = positions[id].close_reason
             /\ positions'[id].current_amount = positions[id].current_amount
             /\ positions'[id].total_pnl_usdt = positions[id].total_pnl_usdt
             /\ \A n \in DOMAIN trades' :
                    n > Len(trades) => trades'[n].position_id # id ]_vars

\* C37: in every state a position is in a closed status if and only if its
\* current_amount is (near-)zero, that is zero up to the 0.0001 of
\* execute_sell.
C37_TerminalIffZero ==
    \A id \in PosIds :
        positions[id].status \in ClosedStatuses
        <=> /\ positions[id].current_amount * 10000 <= AmountScale
            /\ positions[id].current_amount * 10000 >= -AmountScale

RECURSIVE SumPnl(_, _)
\* the sum of the realized P&L of the sell Trades of position id among the
\* first n trades
SumPnl(id, n) ==
    IF n = 0 THEN 0
    ELSE SumPnl(id, n - 1)
         + (IF trades[n].position_id = id /\ trades[n].side = "SELL"
            THEN trades[n].pnl_usdt ELSE 0)

\* C38: the total P&L recorded on a closed position is the sum of the
\* realized P&L of all its sell Trades, the TP1 and TP2 partial closes
\* included.
C38_TotalPnlIsSum ==
    \A id \in PosIds :
        positions[id].status \in ClosedStatuses
        => positions[id].total_pnl_usdt = SumPnl(id, Len(trades))

\* C39: a close that fails, because the position is already closed or the
\* sell order is rejected, appends no Trade and leaves every position's
\* current_amount, realized_pnl and status and the daily statistics as they
\* were.
C39_FailedCloseNoEffect ==
    [][ LET \* execute_sell of the position loop returns None: the position
            \* it finds is closed, or its order is turned down
            LoopSellFails ==
                \/ /\ loop.pc = "ticker"
                   /\ loop' # loop
                   /\ Checked.status \in ClosedStatuses
                \/ /\ loop.pc = "sell"
                   /\ loop' # loop
                   /\ loop'.result = "None"
            \* the manual close ends without a sell: the position is closed
            \* already, or the order is turned down
            ManualCloseFails ==
                /\ hd.pc # "done"
                /\ hd'.pc = "done"
                /\ hd'.kind = "close"
                /\ hd'.answer \in {"already_closed", "close_failed"}
        IN  ( LoopSellFails \/ ManualCloseFails )
        => /\ trades' = trades
           /\ stats' = stats
           /\ \A id \in PosIds :
                 /\ positions'[id].current_amount = positions[id].current_amount
                 /\ positions'[id].realized_pnl = positions[id].realized_pnl
                 /\ positions'[id].status = positions[id].status ]_vars

\* the order of a manual close of a partly closed position was rejected and
\* the position is as the TP1 close left it
C39_Witness ==
    /\ hd.pc = "done"
    /\ hd.answer = "close_failed"
    /\ positions[hd.id].status = "partial_tp1"
    /\ positions[hd.id].current_amount = hd.sell_amount
    /\ Len(trades) = 2

\* C40: the number of positions in status Open, PartialTP1 or PartialTP2
\* never exceeds max_positions, whatever signals are accepted and bought.
C40_OpenPositionsCapped == OpenCount <= max_positions

====
